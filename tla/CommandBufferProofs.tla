------------------------- MODULE CommandBufferProofs -------------------------
(***************************************************************************)
(* Proofs about the direct command buffer: what holds for every script,    *)
(* every set of executables and every number of repeats, slots and faults. *)
(*                                                                         *)
(* The inductive invariant has five parts.  Shapes types the sequences the *)
(* model builds.  Places says what each place of the worker excludes.      *)
(* Images ties the context cache and the chain groups to what the contexts *)
(* were created with.  Fits counts the buffers of a group against the      *)
(* commands it stems from.  Visible says which buffers the host still has  *)
(* to be shown.                                                            *)
(***************************************************************************)
EXTENDS CommandBuffer, FiniteSetTheorems, SequenceTheorems, TLAPS

\* The dispatches of the scripts whose entry point exists.
Runnable ==
  {c \in UNION {UNION {Range(s[i].commands) : i \in {j \in DOMAIN s : s[j].kind = "execute"}} : s \in Scripts} :
     c.do = "dispatch" /\ c.entry \in DOMAIN Executables[c.exe]}

Slot == [do : {"reconfigure", "execute", "sync"}, nth : Int, cmd : Runnable]

Group == [context : Contexts, queue : Contexts, slots : Seq(Slot), sequences : Nat,
          bindings : Seq(Buffers)]

\* The types of what TypeOK leaves open.
Shapes ==
  /\ groups \in Seq(Group)
  /\ run \in [context : Contexts \cup {NoContext}, calls : Seq(Slot)]
  /\ DOMAIN cache = {CacheKey(e) : e \in AllEntries}
  /\ DOMAIN exe_context = DOMAIN Executables

Busy == pc \in {"replay", "run", "flush", "chain"}

\* What each place of the worker excludes: a chain exists only while its list
\* is replayed or flushed, an error only at the end, and the flush comes after
\* the last command.
Places ==
  /\ pc \notin {"ended", "done"} => status = "ok"
  /\ Busy => Op.kind = "execute" /\ at \in 1 .. Len(Op.commands) + 1
  /\ pc \notin {"replay", "flush", "chain"} \/ ~cmd_chain => groups = <<>>
  /\ pc = "run" =>
       /\ at <= Len(Op.commands) /\ Command \in Runnable
       /\ run.context \in Contexts /\ run.calls # <<>>
       /\ \A i \in DOMAIN run.calls : run.calls[i].cmd = Command
  /\ pc \in {"flush", "chain"} =>
       /\ at = Len(Op.commands) + 1 /\ flushing.group \in 1 .. Len(groups)
       /\ max_slots = MaxSlots
  /\ pc = "chain" =>
       flushing.begin <= flushing.slot /\ flushing.slot < ChunkEnd(flushing.begin)
  /\ max_slots \in {0, MaxSlots}

\* A cached context was created with the image it is looked up by.
CacheImages == \A k \in DOMAIN cache : cache[k] # NoContext => image[cache[k]] = k

\* A group retains the context it refers to, which was created with the image
\* of each of its slots.
GroupImages ==
  /\ \A i \in DOMAIN groups : groups[i].context = groups[i].queue
  /\ \A i \in DOMAIN groups : \A j \in DOMAIN groups[i].slots :
       LET e == Entry(groups[i].slots[j].cmd)
       IN  e.pdi # NoPdi => image[groups[i].queue] = Key(e)

Images == CacheImages /\ GroupImages

\* The buffers submit_chain binds for a chunk of the whole group.
Load(g) == Len(g.slots) + g.sequences + Len(g.bindings)

\* No group binds more buffers than the commands replayed so far weigh.
Fits ==
  Busy /\ cmd_chain =>
    /\ IsFiniteSet(Units(Op.commands, at - 1))
    /\ \A i \in DOMAIN groups : Load(groups[i]) <= Cardinality(Units(Op.commands, at - 1))

\* The command writes the buffer c.to.
Writes(c) == c.do \in {"write", "copy"} \/ (c.do = "dispatch" /\ KernelRuns > 0)

\* The first group whose bindings have not been synced yet.
Unsynced == IF pc \in {"flush", "chain"} THEN flushing.group ELSE 1

\* The buffers that a sync still to come shows to the host.
Pending ==
  (UNION {Range(groups[i].bindings) : i \in {j \in DOMAIN groups : j >= Unsynced}})
  \cup (IF pc = "run" /\ KernelRuns > 0 THEN Bindings(Command) ELSE {})

\* Every slot of a group writes a buffer the group syncs.
SlotsSynced ==
  \A i \in DOMAIN groups : \A j \in DOMAIN groups[i].slots :
    groups[i].slots[j].cmd.to \in Range(groups[i].bindings)

\* The calls of a dispatch end with a sync, or never run the kernel.
CallsSynced ==
  pc = "run" =>
    IF KernelRuns > 0 THEN run.calls[Len(run.calls)].do = "sync"
                      ELSE \A i \in DOMAIN run.calls : run.calls[i].do = "reconfigure"

\* The host sees the device's copy of the buffer, or will.
Seen(b) == host[b] = dev[b] \/ b \in Pending

\* What the commands so far wrote is seen by the host or pending.
WritesSeen ==
  Busy => \A i \in 1 .. at - 1 : Writes(Op.commands[i]) => Seen(Op.commands[i].to)

Visible == SlotsSynced /\ CallsSynced /\ WritesSeen

IInv == TypeOK /\ Shapes /\ Places /\ Images /\ Fits /\ Visible

-----------------------------------------------------------------------------
(***************************************************************************)
(* The operators of the model                                              *)
(***************************************************************************)

\* The product of two numbers of repeats.
LEMMA NatProduct ==
  ASSUME NEW a \in Nat, NEW b \in Nat
  PROVE  a * b \in Nat /\ (a > 0 /\ b > 0 => a * b > 0) /\ (b = 0 => a * b = 0)
OBVIOUS

\* A position among repeated calls: its place in the period and its period.
LEMMA PeriodSplit ==
  ASSUME NEW p \in Nat \ {0}, NEW n \in Int
  PROVE  n % p \in 0 .. p - 1 /\ n \div p \in Int
OBVIOUS

\* The last call of the last period is the last of a period.
LEMMA LastOfPeriod ==
  ASSUME NEW p \in Nat \ {0}, NEW r \in Nat \ {0}
  PROVE  (r * p - 1) % p = p - 1
<1>1. \A q \in Int, m \in 0 .. p - 1 : (q * p + m) % p = m
  OBVIOUS
<1>2. r * p - 1 = (r - 1) * p + (p - 1)
  OBVIOUS
<1> QED BY <1>1, <1>2

\* The entry point of a dispatch that can run, and its bindings.
LEMMA RunnableType ==
  ASSUME NEW c \in Runnable
  PROVE  /\ c.exe \in DOMAIN Executables /\ c.from \in Buffers /\ c.to \in Buffers
         /\ Entry(c) \in EntryPoint /\ Entry(c) \in AllEntries
         /\ Entry(c).reconfigurations = 0 => Entry(c).pdi # NoPdi
<1>1. PICK s \in Scripts : \E i \in DOMAIN s : s[i].kind = "execute" /\ c \in Range(s[i].commands)
  BY DEF Runnable
<1>2. PICK i \in DOMAIN s : s[i].kind = "execute" /\ c \in Range(s[i].commands)
  BY <1>1
<1>3. IsOperation(s[i])
  BY ScriptsAssumption DEF Range
<1>4. IsCommand(c) /\ c.do = "dispatch" /\ c.entry \in DOMAIN Executables[c.exe]
  BY <1>2, <1>3 DEF IsOperation, Runnable
<1>5. c.exe \in DOMAIN Executables /\ c.from \in Buffers /\ c.to \in Buffers
  BY <1>4 DEF IsCommand
<1>6. Entry(c) \in EntryPoint /\ (Entry(c).reconfigurations = 0 => Entry(c).pdi # NoPdi)
  BY <1>4, <1>5, ConstantsAssumption DEF Entry
<1>7. Entry(c) \in AllEntries
  BY <1>4, <1>5 DEF Entry, AllEntries
<1> QED BY <1>5, <1>6, <1>7

\* The script under way: its operation, and the list of a queue_execute.
LEMMA OpType ==
  ASSUME TypeOK
  PROVE  /\ Len(script) \in Nat /\ IsOperation(Op)
         /\ Op.kind = "execute" =>
              /\ Op.commands \in Seq(Range(Op.commands))
              /\ Len(Op.commands) \in Nat /\ DOMAIN Op.commands = 1 .. Len(Op.commands)
              /\ \A i \in 1 .. Len(Op.commands) :
                   /\ IsCommand(Op.commands[i])
                   /\ Op.commands[i].do = "dispatch" /\ Op.commands[i].entry \in DOMAIN Executables[Op.commands[i].exe]
                        => Op.commands[i] \in Runnable
<1>1. script \in Scripts /\ item \in 1 .. Len(script)
  BY DEF TypeOK
<1>2. script \in Seq(Range(script))
  BY <1>1, ScriptsAssumption
<1>3. Len(script) \in Nat /\ DOMAIN script = 1 .. Len(script)
  BY <1>2
<1>4. IsOperation(Op)
  BY <1>1, <1>3, ScriptsAssumption DEF Op, Range
<1>5. SUFFICES ASSUME Op.kind = "execute"
               PROVE  /\ Op.commands \in Seq(Range(Op.commands))
                      /\ Len(Op.commands) \in Nat /\ DOMAIN Op.commands = 1 .. Len(Op.commands)
                      /\ \A i \in 1 .. Len(Op.commands) :
                           /\ IsCommand(Op.commands[i])
                           /\ Op.commands[i].do = "dispatch" /\ Op.commands[i].entry \in DOMAIN Executables[Op.commands[i].exe]
                                => Op.commands[i] \in Runnable
  BY <1>3, <1>4
<1>6. Op.commands \in Seq(Range(Op.commands)) /\ \A c \in Range(Op.commands) : IsCommand(c)
  BY <1>4, <1>5 DEF IsOperation
<1>7. Len(Op.commands) \in Nat /\ DOMAIN Op.commands = 1 .. Len(Op.commands)
  BY <1>6
<1>8. ASSUME NEW i \in 1 .. Len(Op.commands)
      PROVE  /\ Op.commands[i] \in Range(Op.commands)
             /\ Op.commands[i].do = "dispatch" /\ Op.commands[i].entry \in DOMAIN Executables[Op.commands[i].exe]
                  => Op.commands[i] \in Runnable
  <2>1. Op.commands[i] \in Range(Op.commands)
    BY <1>7 DEF Range
  <2>2. item \in {j \in DOMAIN script : script[j].kind = "execute"}
    BY <1>1, <1>3, <1>5 DEF Op
  <2>3. Op.commands[i] \in
          UNION {Range(script[k].commands) : k \in {j \in DOMAIN script : script[j].kind = "execute"}}
    BY <2>1, <2>2 DEF Op
  <2> QED BY <1>1, <2>1, <2>3 DEF Runnable
<1> QED BY <1>6, <1>7, <1>8

\* A dispatch runs its control code at least once, and reconfigures for it or not.
LEMMA RepeatsType ==
  ASSUME NEW c \in Runnable
  PROVE  RunsOf(Entry(c)) \in Nat \ {0} /\ Reconfigures(Entry(c)) \in Nat
BY RunnableType, ConstantsAssumption DEF RunsOf, Reconfigures, EntryPoint

\* The slots of a dispatch are a sequence of slots of that dispatch.
LEMMA SlotsType ==
  ASSUME NEW c \in Runnable
  PROVE  /\ Slots(c) \in Seq(Slot) /\ Len(Slots(c)) \in Nat
         /\ \A j \in DOMAIN Slots(c) : Slots(c)[j].cmd = c
<1> DEFINE period == Reconfigures(Entry(c)) + KernelRuns
           count  == RunsOf(Entry(c)) * period
           slot(j) == [do |-> IF (j - 1) % period < Reconfigures(Entry(c)) THEN "reconfigure" ELSE "execute",
                       nth |-> 1 + (j - 1) \div period, cmd |-> c]
<1>1. RunsOf(Entry(c)) \in Nat /\ period \in Nat
  BY RepeatsType, ConstantsAssumption
<1>2. count \in Nat /\ (period = 0 => count = 0)
  BY <1>1, NatProduct
<1>3. ASSUME NEW j \in 1 .. count PROVE slot(j) \in Slot
  <2>1. period \in Nat \ {0} /\ j - 1 \in Int
    BY <1>1, <1>2
  <2> HIDE DEF period, count
  <2>2. (j - 1) \div period \in Int
    BY <2>1, PeriodSplit
  <2> QED BY <2>2 DEF Slot
<1>4. Slots(c) = [j \in 1 .. count |-> slot(j)]
  BY DEF Slots
<1> HIDE DEF count, slot
<1>5. Slots(c) \in Seq(Slot) /\ Len(Slots(c)) = count
  BY <1>2, <1>3, <1>4, IsASeq
<1>6. \A j \in DOMAIN Slots(c) : Slots(c)[j].cmd = c
  BY <1>4 DEF slot
<1> QED BY <1>2, <1>5, <1>6

\* So are its calls when it is not chained, and when the kernel runs at all
\* the last of them is the sync of its bindings.
LEMMA CallsType ==
  ASSUME NEW c \in Runnable
  PROVE  /\ Calls(c) \in Seq(Slot)
         /\ \A j \in DOMAIN Calls(c) : Calls(c)[j].cmd = c
         /\ KernelRuns > 0 => Calls(c) # <<>> /\ Calls(c)[Len(Calls(c))].do = "sync"
         /\ KernelRuns = 0 => \A j \in DOMAIN Calls(c) : Calls(c)[j].do = "reconfigure"
<1> DEFINE recs   == Reconfigures(Entry(c))
           period == recs + KernelRuns + (IF KernelRuns = 0 THEN 0 ELSE 1)
           runs   == RunsOf(Entry(c))
           count  == runs * period
           do(j)  == IF (j - 1) % period < recs THEN "reconfigure"
                     ELSE IF (j - 1) % period < recs + KernelRuns THEN "execute" ELSE "sync"
           call(j) == [do |-> do(j), nth |-> 1 + (j - 1) \div period, cmd |-> c]
<1>1. runs \in Nat \ {0} /\ recs \in Nat /\ period \in Nat /\ KernelRuns \in Nat
  BY RepeatsType, ConstantsAssumption
<1>2. count \in Nat /\ (period = 0 => count = 0) /\ (period > 0 => count > 0)
  BY <1>1, NatProduct
<1>3. ASSUME NEW j \in 1 .. count
      PROVE  call(j) \in Slot /\ (KernelRuns = 0 => do(j) = "reconfigure")
  <2>1. period \in Nat \ {0} /\ j - 1 \in Int
    BY <1>1, <1>2
  <2>2. (j - 1) \div period \in Int /\ (j - 1) % period \in 0 .. period - 1
    <3> HIDE DEF period
    <3> QED BY <2>1, PeriodSplit
  <2>3. KernelRuns = 0 => do(j) = "reconfigure"
    BY <1>1, <2>2
  <2>4. do(j) \in {"reconfigure", "execute", "sync"}
    OBVIOUS
  <2> HIDE DEF do
  <2> QED BY <2>2, <2>3, <2>4 DEF Slot
<1>4. ASSUME KernelRuns > 0 PROVE period \in Nat \ {0} /\ do(count) = "sync"
  <2>1. period \in Nat \ {0}
    BY <1>1, <1>4
  <2>2. (count - 1) % period = period - 1
    <3> HIDE DEF period, runs
    <3> QED BY <1>1, <2>1, LastOfPeriod
  <2>3. period - 1 = recs + KernelRuns
    BY <1>1, <1>4
  <2> HIDE DEF count, period
  <2> QED BY <1>1, <2>1, <2>2, <2>3
<1>5. Calls(c) = [j \in 1 .. count |-> call(j)]
  BY DEF Calls
<1> HIDE DEF count, do, period
<1>6. Calls(c) \in Seq(Slot) /\ Len(Calls(c)) = count /\ DOMAIN Calls(c) = 1 .. count
  BY <1>2, <1>3, <1>5, IsASeq
<1>7. \A j \in DOMAIN Calls(c) : Calls(c)[j].cmd = c /\ Calls(c)[j].do = do(j)
  BY <1>5
<1>8. KernelRuns > 0 => Calls(c) # <<>> /\ Calls(c)[Len(Calls(c))].do = "sync"
  BY <1>2, <1>4, <1>6, <1>7
<1> QED BY <1>3, <1>6, <1>7, <1>8

\* What a submitted call does to device memory: at most the buffer it writes
\* changes, and only when it runs the kernel.
LEMMA SubmitType ==
  ASSUME NEW s \in Slot, NEW m, NEW f, DOMAIN m = Buffers
  PROVE  LET d == Submit(s, [dev |-> m, config |-> f])
         IN  /\ DOMAIN d.dev = Buffers
             /\ s.do # "execute" => d.dev = m
             /\ \A b \in Buffers : b # s.cmd.to => d.dev[b] = m[b]
<1> DEFINE d0 == [dev |-> m, config |-> f]
           v  == <<s.cmd.exe, s.cmd.entry, s.nth, d0.config, d0.dev[s.cmd.from]>>
           g  == Configuration(s.cmd, s.nth)
<1>1. CASE s.do = "reconfigure"
  <2>1. Submit(s, d0) = [d0 EXCEPT !.config = g]
    BY <1>1 DEF Submit
  <2> HIDE DEF g
  <2> QED BY <2>1, <1>1
<1>2. CASE s.do = "execute"
  <2>1. Submit(s, d0) = [d0 EXCEPT !.dev[s.cmd.to] = v]
    BY <1>2 DEF Submit
  <2> HIDE DEF v
  <2>2. Submit(s, d0).dev = [m EXCEPT ![s.cmd.to] = v]
    BY <2>1
  <2> QED BY <2>2, <1>2
<1>3. CASE s.do = "sync"
  BY <1>3 DEF Submit
<1> QED BY <1>1, <1>2, <1>3 DEF Slot

\* A list weighs nothing before its first command.
LEMMA UnitsNone ==
  ASSUME NEW commands
  PROVE  IsFiniteSet(Units(commands, 0)) /\ Cardinality(Units(commands, 0)) = 0
<1>1. Units(commands, 0) = {}
  BY DEF Units
<1> QED BY <1>1, FS_EmptySet

\* One more command adds its weight.
LEMMA UnitsNext ==
  ASSUME NEW commands, NEW n \in Nat, IsFiniteSet(Units(commands, n)),
         Weight(commands[n + 1]) \in Nat
  PROVE  /\ IsFiniteSet(Units(commands, n + 1))
         /\ Cardinality(Units(commands, n)) \in Nat
         /\ Cardinality(Units(commands, n + 1)) =
              Cardinality(Units(commands, n)) + Weight(commands[n + 1])
<1> DEFINE w == Weight(commands[n + 1])
           new == {n + 1} \X (1 .. w)
<1>1. Units(commands, n + 1) = Units(commands, n) \cup new
  <2>1. 1 .. n + 1 = (1 .. n) \cup {n + 1}
    OBVIOUS
  <2> QED BY <2>1 DEF Units
<1>2. IsFiniteSet({n + 1}) /\ Cardinality({n + 1}) = 1
  BY FS_Singleton
<1>3. IsFiniteSet(1 .. w) /\ Cardinality(1 .. w) = w
  BY FS_Interval
<1>4. IsFiniteSet(new) /\ Cardinality(new) = w
  BY <1>2, <1>3, FS_Product
<1>5. Units(commands, n) \cap new = {}
  BY DEF Units
<1>6. Cardinality({}) = 0
  BY FS_EmptySet
<1>7. Cardinality(Units(commands, n)) \in Nat
  BY FS_CardinalityType
<1> HIDE DEF new
<1>8. /\ IsFiniteSet(Units(commands, n) \cup new)
      /\ Cardinality(Units(commands, n) \cup new) = Cardinality(Units(commands, n)) + Cardinality(new) - 0
  BY <1>4, <1>5, <1>6, FS_Union
<1>9. /\ IsFiniteSet(Units(commands, n + 1))
      /\ Cardinality(Units(commands, n + 1)) = Cardinality(Units(commands, n)) + w - 0
  BY ONLY <1>1, <1>4, <1>8, Zenon
<1> HIDE DEF w
<1> QED BY ONLY <1>7, <1>9, w \in Nat DEF w

\* The weight of a command that does not stop the replay.
LEMMA WeightType ==
  ASSUME NEW c, c.do # "dispatch" \/ c \in Runnable
  PROVE  /\ Weight(c) \in Nat
         /\ c.do = "dispatch" => Weight(c) = Len(Slots(c)) + Entry(c).reconfigurations + 2
BY SlotsType, RunnableType DEF Weight, EntryPoint

\* What accumulate_chained makes of a group.
Grown(g, c) == [g EXCEPT !.slots = g.slots \o Slots(c),
                         !.sequences = g.sequences + Entry(c).reconfigurations,
                         !.bindings = g.bindings \o <<c.from, c.to>>]

LEMMA GrownType ==
  ASSUME NEW g \in Group, NEW c \in Runnable
  PROVE  /\ Grown(g, c) \in Group
         /\ Grown(g, c).context = g.context /\ Grown(g, c).queue = g.queue
         /\ Load(Grown(g, c)) = Load(g) + Len(Slots(c)) + Entry(c).reconfigurations + 2
         /\ \A j \in DOMAIN Grown(g, c).slots :
              Grown(g, c).slots[j].cmd = c \/ \E k \in DOMAIN g.slots : Grown(g, c).slots[j] = g.slots[k]
         /\ Range(Grown(g, c).bindings) = Range(g.bindings) \cup Bindings(c)
<1>1. c.from \in Buffers /\ c.to \in Buffers /\ Entry(c).reconfigurations \in Nat
  BY RunnableType DEF EntryPoint
<1>2. Slots(c) \in Seq(Slot) /\ Len(Slots(c)) \in Nat /\ \A j \in DOMAIN Slots(c) : Slots(c)[j].cmd = c
  BY SlotsType
<1>3. g.slots \in Seq(Slot) /\ g.sequences \in Nat /\ g.bindings \in Seq(Buffers)
  BY DEF Group
<1> DEFINE h == Grown(g, c)
           two == <<c.from, c.to>>
<1>4. /\ h.slots = g.slots \o Slots(c) /\ h.bindings = g.bindings \o two
      /\ h.sequences = g.sequences + Entry(c).reconfigurations
      /\ h.context = g.context /\ h.queue = g.queue
  BY DEF Grown, Group
<1>5. two \in Seq(Buffers) /\ Len(two) = 2
  BY <1>1
<1>6. /\ h.slots \in Seq(Slot) /\ Len(h.slots) = Len(g.slots) + Len(Slots(c))
      /\ h.bindings \in Seq(Buffers) /\ Len(h.bindings) = Len(g.bindings) + Len(two)
      /\ Len(g.slots) \in Nat /\ Len(g.bindings) \in Nat
  <2>1. /\ g.slots \o Slots(c) \in Seq(Slot)
        /\ Len(g.slots \o Slots(c)) = Len(g.slots) + Len(Slots(c))
    BY <1>2, <1>3, ConcatProperties
  <2>2. /\ g.bindings \o two \in Seq(Buffers)
        /\ Len(g.bindings \o two) = Len(g.bindings) + Len(two)
    <3> HIDE DEF two
    <3> QED BY <1>3, <1>5, ConcatProperties
  <2>3. Len(g.slots) \in Nat /\ Len(g.bindings) \in Nat
    BY <1>3
  <2> HIDE DEF h, two
  <2> QED BY <1>4, <2>1, <2>2, <2>3
<1>7. h \in Group
  <2>1. /\ g.slots \o Slots(c) \in Seq(Slot) /\ g.bindings \o two \in Seq(Buffers)
        /\ g.sequences + Entry(c).reconfigurations \in Nat
    <3> HIDE DEF h, two
    <3> QED BY <1>1, <1>3, <1>4, <1>6
  <2>2. h = [g EXCEPT !.slots = g.slots \o Slots(c),
                      !.sequences = g.sequences + Entry(c).reconfigurations,
                      !.bindings = g.bindings \o two]
    BY DEF Grown
  <2> HIDE DEF h, two
  <2> QED BY ONLY g \in Group, <2>1, <2>2 DEF Group
<1>8. Load(h) = Load(g) + Len(Slots(c)) + Entry(c).reconfigurations + 2
  <2>1. /\ Len(h.slots) = Len(g.slots) + Len(Slots(c)) /\ Len(h.bindings) = Len(g.bindings) + 2
        /\ h.sequences = g.sequences + Entry(c).reconfigurations
    BY <1>4, <1>5, <1>6
  <2>2. /\ Len(g.slots) \in Nat /\ Len(g.bindings) \in Nat /\ g.sequences \in Nat
        /\ Len(Slots(c)) \in Nat /\ Entry(c).reconfigurations \in Nat
    BY <1>1, <1>2, <1>3, <1>6
  <2> HIDE DEF h, two
  <2> DEFINE u == Len(g.slots)
             v == g.sequences
             w == Len(g.bindings)
             x == Len(Slots(c))
             y == Entry(c).reconfigurations
  <2>3. u \in Nat /\ v \in Nat /\ w \in Nat /\ x \in Nat /\ y \in Nat
    BY <2>2
  <2>4. Load(h) = (u + x) + (v + y) + (w + 2) /\ Load(g) = u + v + w
    BY ONLY <2>1, Zenon DEF Load
  <2> HIDE DEF u, v, w, x, y
  <2>5. Load(h) = Load(g) + x + y + 2
    BY ONLY <2>3, <2>4
  <2> QED BY <2>5 DEF x, y
<1>9. ASSUME NEW j \in DOMAIN h.slots
      PROVE  h.slots[j].cmd = c \/ \E k \in DOMAIN g.slots : h.slots[j] = g.slots[k]
  <2> HIDE DEF h
  <2> QED BY <1>2, <1>3, <1>4, <1>6
<1>10. Range(h.bindings) = Range(g.bindings) \cup Bindings(c)
  <2>1. Range(two) = {c.from, c.to}
    BY <1>5 DEF Range
  <2>2. Range(h.bindings) = Range(g.bindings) \cup Range(two)
    <3> HIDE DEF two, h
    <3> QED BY <1>3, <1>4, <1>5, RangeConcatenation
  <2> QED BY <2>1, <2>2 DEF Bindings
<1> QED BY <1>4, <1>7, <1>8, <1>9, <1>10

\* accumulate_chained puts the dispatch into the last group, or into a new one
\* behind it, and leaves the other groups alone.
LEMMA AccumulateGroups ==
  ASSUME groups \in Seq(Group), NEW c \in Runnable, NEW x \in Contexts, Accumulate(c, x)
  PROVE  \E n \in Nat \ {0}, g \in Group :
           /\ g.queue = x
           /\ \/ n = Len(groups) + 1 /\ g = NewGroup(x)
              \/ n = Len(groups) /\ g = groups[n]
           /\ groups' \in Seq(Group) /\ Len(groups') = n /\ groups'[n] = Grown(g, c)
           /\ \A i \in 1 .. n - 1 : i \in DOMAIN groups /\ groups'[i] = groups[i]
<1> DEFINE open == IF groups = <<>> \/ groups[Len(groups)].queue # x
                   THEN Append(groups, NewGroup(x)) ELSE groups
           n == Len(open)
           g == open[n]
<1>1. NewGroup(x) \in Group /\ NewGroup(x).queue = x
  BY DEF NewGroup, Group
<1>2. /\ open \in Seq(Group) /\ n \in Nat \ {0} /\ g \in Group /\ g.queue = x
      /\ \/ n = Len(groups) + 1 /\ g = NewGroup(x)
         \/ n = Len(groups) /\ g = groups[n]
      /\ \A i \in 1 .. n - 1 : i \in DOMAIN groups /\ open[i] = groups[i]
  <2>1. CASE groups = <<>> \/ groups[Len(groups)].queue # x
    <3>1. open = Append(groups, NewGroup(x))
      BY <2>1
    <3> HIDE DEF open
    <3> QED BY <1>1, <3>1, AppendProperties
  <2>2. CASE ~(groups = <<>> \/ groups[Len(groups)].queue # x)
    <3>1. open = groups
      BY <2>2
    <3> HIDE DEF open
    <3> QED BY <2>2, <3>1
  <2> QED BY <2>1, <2>2
<1>3. groups' = [open EXCEPT ![n] = Grown(g, c)]
  BY DEF Accumulate, Grown
<1>4. Grown(g, c) \in Group
  BY <1>2, GrownType
<1> HIDE DEF open, g
<1>5. groups' \in Seq(Group) /\ Len(groups') = n /\ groups'[n] = Grown(g, c)
      /\ \A i \in 1 .. n - 1 : groups'[i] = open[i]
  BY <1>2, <1>3, <1>4, ExceptSeq
<1> HIDE DEF n
<1> QED BY <1>2, <1>5

-----------------------------------------------------------------------------
(***************************************************************************)
(* Types                                                                   *)
(***************************************************************************)

\* The types of TypeOK and Shapes, sorted by what the actions change together:
\* the worker's place with its chain, device memory, and the contexts.
PlaceTypes ==
  /\ script \in Scripts /\ item \in 1 .. Len(script) /\ at \in Nat
  /\ pc \in {"start", "replay", "run", "flush", "chain", "ended", "done"}
  /\ status \in {"ok", "error"}
  /\ run \in [context : Contexts \cup {NoContext}, calls : Seq(Slot)]
  /\ groups \in Seq(Group)
  /\ flushing \in [group : Nat \ {0}, begin : Nat, slot : Nat] /\ max_slots \in Nat
  /\ faults \in 0 .. MaxFaults /\ blamed \in BOOLEAN

DataTypes ==
  DOMAIN host = Buffers /\ DOMAIN dev = Buffers /\ deallocated \subseteq Buffers

ContextTypes ==
  /\ DOMAIN image = Contexts /\ DOMAIN config = Contexts
  /\ DOMAIN cache = {CacheKey(e) : e \in AllEntries}
  /\ DOMAIN exe_context = DOMAIN Executables
  /\ \A k \in DOMAIN cache : cache[k] \in Contexts \cup {NoContext}
  /\ \A x \in DOMAIN exe_context : exe_context[x] \in Contexts \cup {NoContext}

LEMMA TypesSplit ==
  TypeOK /\ Shapes <=> cmd_chain \in BOOLEAN /\ PlaceTypes /\ DataTypes /\ ContextTypes
<1>1. PlaceTypes => \A i \in DOMAIN groups : {groups[i].context, groups[i].queue} \subseteq Contexts
  <2>1. PlaceTypes => \A i \in DOMAIN groups : groups[i] \in Group
    BY DEF PlaceTypes
  <2> QED BY <2>1 DEF Group
<1>2. PlaceTypes => run.context \in Contexts \cup {NoContext}
  BY DEF PlaceTypes
<1>3. TypeOK /\ Shapes => PlaceTypes
  BY Zenon DEF TypeOK, Shapes, PlaceTypes
<1>4. TypeOK /\ Shapes => cmd_chain \in BOOLEAN /\ DataTypes /\ ContextTypes
  BY Zenon DEF TypeOK, Shapes, DataTypes, ContextTypes
<1>5. cmd_chain \in BOOLEAN /\ PlaceTypes /\ DataTypes /\ ContextTypes => TypeOK /\ Shapes
  BY <1>1, <1>2, Zenon DEF TypeOK, Shapes, PlaceTypes, DataTypes, ContextTypes
<1> QED BY <1>3, <1>4, <1>5

LEMMA IdleType ==
  Idle \in [context : Contexts \cup {NoContext}, calls : Seq(Slot)] /\ <<>> \in Seq(Group)
BY DEF Idle

\* The ways a handler can end.
LEMMA AbortPlace ==
  ASSUME PlaceTypes, Abort, faults' \in 0 .. MaxFaults, blamed' \in BOOLEAN
  PROVE  PlaceTypes'
BY IdleType DEF PlaceTypes, Abort

LEMMA RefusePlace == PlaceTypes /\ Refuse => PlaceTypes'
BY AbortPlace DEF PlaceTypes, Refuse

LEMMA FaultPlace == PlaceTypes /\ Fault => PlaceTypes'
BY AbortPlace, ConstantsAssumption DEF PlaceTypes, Fault

LEMMA NextCommandPlace ==
  PlaceTypes /\ NextCommand /\ UNCHANGED <<chainVars, historyVars>> => PlaceTypes'
BY DEF PlaceTypes, NextCommand, chainVars, historyVars

\* A dispatch that has its context keeps the types of the worker's place.
LEMMA ProceedPlace ==
  ASSUME PlaceTypes, NEW c \in Runnable, NEW x \in Contexts, Proceed(c, x)
  PROVE  PlaceTypes' /\ UNCHANGED deviceVars
<1>1. CASE Fault /\ UNCHANGED deviceVars
  BY <1>1, FaultPlace
<1>2. CASE Refuse /\ UNCHANGED deviceVars
  BY <1>2, RefusePlace
<1>3. CASE Accumulate(c, x)
  <2>1. groups' \in Seq(Group)
    BY <1>3, AccumulateGroups DEF PlaceTypes
  <2>2. NextCommand /\ UNCHANGED <<flushing, max_slots, deviceVars, historyVars>>
    BY <1>3 DEF Accumulate
  <2>3. UNCHANGED <<flushing, max_slots, faults, blamed>> /\ UNCHANGED deviceVars
    BY <2>2 DEF historyVars
  <2> QED BY <2>1, <2>2, <2>3 DEF PlaceTypes, NextCommand
<1>4. CASE NextCommand /\ UNCHANGED <<chainVars, deviceVars, historyVars>>
  BY <1>4, NextCommandPlace
<1>5. CASE /\ pc' = "run" /\ run' = [context |-> x, calls |-> Calls(c)]
           /\ UNCHANGED <<script, item, at, status>>
           /\ UNCHANGED <<chainVars, deviceVars, historyVars>>
  BY <1>5, CallsType DEF PlaceTypes, chainVars, historyVars
<1> QED BY <1>1, <1>2, <1>3, <1>4, <1>5 DEF Proceed

\* The command being replayed is one of the list.
LEMMA AtCommand ==
  ASSUME TypeOK, Places, Replaying
  PROVE  /\ pc = "replay" /\ Op.kind = "execute" /\ IsCommand(Command)
         /\ Len(Op.commands) \in Nat /\ at \in 1 .. Len(Op.commands)
         /\ DOMAIN Op.commands = 1 .. Len(Op.commands)
<1>1. pc = "replay" /\ at <= Len(Op.commands)
  BY DEF Replaying
<1>2. Op.kind = "execute" /\ at \in 1 .. Len(Op.commands) + 1
  BY <1>1 DEF Places, Busy
<1>3. /\ Len(Op.commands) \in Nat /\ DOMAIN Op.commands = 1 .. Len(Op.commands)
      /\ \A i \in 1 .. Len(Op.commands) : IsCommand(Op.commands[i])
  BY <1>2, OpType
<1>4. at \in 1 .. Len(Op.commands)
  BY <1>1, <1>2, <1>3
<1> QED BY <1>1, <1>2, <1>3, <1>4 DEF Command

\* A dispatch that passes the checks can run.
LEMMA DispatchRunnable ==
  ASSUME TypeOK, Places, Dispatching, ~Invalid(Command)
  PROVE  Command \in Runnable
<1>1. Replaying /\ Command.do = "dispatch" /\ Command.entry \in DOMAIN Executables[Command.exe]
  BY DEF Dispatching, Invalid
<1>2. Op.kind = "execute" /\ at \in 1 .. Len(Op.commands)
  BY <1>1, AtCommand
<1> QED BY <1>1, <1>2, OpType DEF Command

LEMMA InvalidatedType ==
  ASSUME NEW bs
  PROVE  /\ DOMAIN Invalidated(bs) = Buffers
         /\ \A b \in Buffers : Invalidated(bs)[b] = IF b \in bs THEN dev[b] ELSE host[b]
BY DEF Invalidated

\* The slot the device is about to run belongs to the group being flushed.
LEMMA ChainAt ==
  ASSUME PlaceTypes, Places, pc \in {"flush", "chain"}
  PROVE  /\ flushing.group \in DOMAIN groups /\ Flushing \in Group
         /\ Len(Flushing.slots) \in Nat /\ Flushing.queue \in Contexts
         /\ pc = "chain" => /\ flushing.slot + 1 \in DOMAIN Flushing.slots
                            /\ Flushing.slots[flushing.slot + 1] \in Slot
<1>1. flushing.group \in 1 .. Len(groups) /\ groups \in Seq(Group)
  BY DEF Places, PlaceTypes
<1>2. flushing.group \in DOMAIN groups /\ Flushing \in Group
  BY <1>1 DEF Flushing
<1>3. Flushing.slots \in Seq(Slot) /\ Flushing.queue \in Contexts
  BY <1>2 DEF Group
<1>4. Len(Flushing.slots) \in Nat /\ DOMAIN Flushing.slots = 1 .. Len(Flushing.slots)
  BY <1>3
<1>5. ASSUME pc = "chain" PROVE flushing.slot + 1 \in DOMAIN Flushing.slots
  <2>1. flushing.begin \in Nat /\ flushing.slot \in Nat /\ max_slots \in Nat
    BY DEF PlaceTypes
  <2>2. flushing.slot < ChunkEnd(flushing.begin)
    BY <1>5 DEF Places
  <2>3. ChunkEnd(flushing.begin) <= Len(Flushing.slots)
    BY <1>4, <2>1 DEF ChunkEnd
  <2>4. ChunkEnd(flushing.begin) \in Nat
    BY <1>4, <2>1 DEF ChunkEnd
  <2> QED BY <1>4, <2>1, <2>2, <2>3, <2>4
<1> QED BY <1>2, <1>3, <1>4, <1>5

\* The call of a dispatch that is made next.
LEMMA RunAt ==
  ASSUME PlaceTypes, Places, pc = "run"
  PROVE  /\ Head(run.calls) \in Slot /\ Head(run.calls).cmd = Command
         /\ Head(run.calls) = run.calls[1] /\ 1 \in DOMAIN run.calls
         /\ run.context \in Contexts /\ run.calls \in Seq(Slot) /\ Len(run.calls) \in Nat \ {0}
         /\ Command \in Runnable
<1>1. run.calls \in Seq(Slot) /\ run.calls # <<>> /\ run.context \in Contexts /\ Command \in Runnable
  BY DEF PlaceTypes, Places
<1>2. \A i \in DOMAIN run.calls : run.calls[i].cmd = Command
  BY DEF Places
<1>3. Head(run.calls) = run.calls[1] /\ 1 \in DOMAIN run.calls /\ Len(run.calls) \in Nat \ {0}
  BY <1>1
<1>4. run.calls[1] \in Slot
  BY <1>1, <1>3
<1> QED BY <1>1, <1>2, <1>3, <1>4

LEMMA ContextNew ==
  ASSUME ContextTypes, NEW x \in Contexts, NEW key, NewContext(x, key)
  PROVE  DOMAIN image' = Contexts /\ DOMAIN config' = Contexts
BY DEF ContextTypes, NewContext

\* get_or_create_context keeps the types of the contexts and of the cache.
LEMMA GetOrCreateTypes ==
  ASSUME ContextTypes, NEW e, NEW x \in Contexts, GetOrCreate(e, x)
  PROVE  /\ DOMAIN image' = Contexts /\ DOMAIN config' = Contexts
         /\ DOMAIN cache' = {CacheKey(f) : f \in AllEntries}
         /\ \A k \in DOMAIN cache' : cache'[k] \in Contexts \cup {NoContext}
<1>1. CASE cache[CacheKey(e)] # NoContext
  BY <1>1 DEF GetOrCreate, ContextTypes
<1>2. CASE cache[CacheKey(e)] = NoContext
  <2>1. NewContext(x, Key(e)) /\ cache' = [cache EXCEPT ![CacheKey(e)] = x]
    BY <1>2 DEF GetOrCreate
  <2> QED BY <2>1, ContextNew DEF ContextTypes
<1> QED BY <1>1, <1>2

\* Every step keeps the types.
LEMMA TypesStep ==
  ASSUME TypeOK, Shapes, Places, [Next]_vars
  PROVE  TypeOK' /\ Shapes'
<1>1. PlaceTypes /\ DataTypes /\ ContextTypes /\ cmd_chain \in BOOLEAN
  BY TypesSplit
<1> SUFFICES cmd_chain' \in BOOLEAN /\ PlaceTypes' /\ DataTypes' /\ ContextTypes'
  <2>1. (TypeOK /\ Shapes)' <=> (cmd_chain \in BOOLEAN /\ PlaceTypes /\ DataTypes /\ ContextTypes)'
    BY TypesSplit, PTL
  <2> QED BY <2>1
<1>2. UNCHANGED deviceVars => DataTypes'
  BY <1>1 DEF DataTypes, deviceVars
<1>3. UNCHANGED contextVars => ContextTypes'
  BY <1>1 DEF ContextTypes, contextVars
<1>4. cmd_chain' = cmd_chain
  BY DEF Next, vars
<1>5. IsOperation(Op) /\ Len(script) \in Nat
  BY OpType
<1>6. CASE QueueExecute
  <2>1. /\ UNCHANGED <<script, item, run, groups, flushing, max_slots>>
        /\ pc' \in {"replay", "ended"} /\ at' = 1 /\ status' \in {status, "error"}
        /\ blamed' \in BOOLEAN /\ (faults' = faults \/ (faults < MaxFaults /\ faults' = faults + 1))
    BY <1>6 DEF QueueExecute, chainVars
  <2>2. PlaceTypes'
    BY <1>1, <2>1, ConstantsAssumption DEF PlaceTypes
  <2> QED BY <1>1, <1>2, <1>3, <1>4, <1>6, <2>2 DEF QueueExecute
<1>7. CASE QueueCopy
  <2>1. UNCHANGED <<script, item, at, run, chainVars, contextVars, deallocated>> /\ pc' = "ended"
    BY <1>7 DEF QueueCopy
  <2>2. /\ status' \in {status, "error"} /\ blamed' \in BOOLEAN
        /\ faults' = faults \/ (faults < MaxFaults /\ faults' = faults + 1)
    BY <1>7 DEF QueueCopy
  <2>3. PlaceTypes'
    BY <1>1, <2>1, <2>2, ConstantsAssumption DEF PlaceTypes, chainVars
  <2>4. DataTypes'
    BY <1>1, <1>7, <2>1 DEF QueueCopy, DataTypes
  <2> QED BY <1>1, <1>3, <1>4, <2>1, <2>3, <2>4
<1>8. CASE QueueBarrier
  <2>1. PlaceTypes'
    BY <1>1, <1>8 DEF QueueBarrier, Succeed, PlaceTypes, chainVars
  <2> QED BY <1>1, <1>2, <1>3, <1>4, <1>8, <2>1 DEF QueueBarrier
<1>9. CASE QueueDealloca
  <2>1. PlaceTypes'
    BY <1>1, <1>9 DEF QueueDealloca, Succeed, PlaceTypes, chainVars
  <2>2. Op.buffer \in Buffers
    BY <1>5, <1>9 DEF IsOperation, QueueDealloca, Starting
  <2>3. DataTypes'
    BY <1>1, <1>9, <2>2 DEF QueueDealloca, DataTypes
  <2> QED BY <1>1, <1>3, <1>4, <1>9, <2>1, <2>3 DEF QueueDealloca
<1>10. CASE NextOperation
  <2>1. PlaceTypes'
    BY <1>1, <1>5, <1>10 DEF NextOperation, PlaceTypes, chainVars, historyVars
  <2> QED BY <1>1, <1>2, <1>3, <1>4, <1>10, <2>1 DEF NextOperation
<1>11. CASE Barrier
  <2>1. PlaceTypes'
    BY <1>1, <1>11, RefusePlace, NextCommandPlace DEF Barrier
  <2> QED BY <1>1, <1>2, <1>3, <1>4, <1>11, <2>1 DEF Barrier
<1>12. CASE Write
  <2>1. PlaceTypes'
    BY <1>1, <1>12, FaultPlace, NextCommandPlace DEF Write
  <2>2. DataTypes'
    BY <1>1, <1>12 DEF Write, DataTypes
  <2> QED BY <1>1, <1>3, <1>4, <1>12, <2>1, <2>2 DEF Write
<1>13. CASE Copy
  <2>1. PlaceTypes'
    BY <1>1, <1>13, FaultPlace, NextCommandPlace DEF Copy
  <2>2. DataTypes'
    BY <1>1, <1>13, InvalidatedType DEF Copy, DataTypes
  <2> QED BY <1>1, <1>3, <1>4, <1>13, <2>1, <2>2 DEF Copy
<1>14. CASE DispatchFresh
  <2>1. Command \in Runnable /\ UNCHANGED <<cache, exe_context>>
    BY <1>14, DispatchRunnable DEF DispatchFresh
  <2>2. PICK x \in Contexts : NewContext(x, Key(Entry(Command))) /\ Proceed(Command, x)
    BY <1>14 DEF DispatchFresh
  <2>3. PlaceTypes' /\ UNCHANGED deviceVars
    BY <1>1, <2>1, <2>2, ProceedPlace
  <2>4. ContextTypes'
    BY <1>1, <2>1, <2>2, ContextNew DEF ContextTypes
  <2> QED BY <1>1, <1>2, <1>4, <2>3, <2>4
<1>15. CASE DispatchCached
  <2>1. Command \in Runnable
    BY <1>15, DispatchRunnable DEF DispatchCached
  <2>2. PICK x \in Contexts :
          /\ GetOrCreate(Entry(Command), x)
          /\ IF OpenCu(Command, image'[x])
             THEN /\ exe_context' = [exe_context EXCEPT ![Command.exe] = x]
                  /\ Proceed(Command, x)
             ELSE Refuse /\ UNCHANGED <<exe_context, deviceVars>>
    BY <1>15 DEF DispatchCached
  <2>3. PlaceTypes' /\ UNCHANGED deviceVars
    <3>1. CASE Proceed(Command, x)
      BY <1>1, <2>1, <3>1, ProceedPlace
    <3>2. CASE Refuse /\ UNCHANGED <<exe_context, deviceVars>>
      BY <1>1, <3>2, RefusePlace
    <3> QED BY <2>2, <3>1, <3>2
  <2>4. exe_context' = exe_context \/ exe_context' = [exe_context EXCEPT ![Command.exe] = x]
    BY <2>2
  <2>5. /\ DOMAIN exe_context' = DOMAIN Executables
        /\ \A y \in DOMAIN exe_context' : exe_context'[y] \in Contexts \cup {NoContext}
    BY <1>1, <2>4 DEF ContextTypes
  <2>6. ContextTypes'
    BY <1>1, <2>2, <2>5, GetOrCreateTypes DEF ContextTypes
  <2> QED BY <1>1, <1>2, <1>4, <2>3, <2>6
<1>16. CASE DispatchKept
  <2>1. Command \in Runnable
    BY <1>16, DispatchRunnable DEF DispatchKept
  <2>2. exe_context[Command.exe] \in Contexts \cup {NoContext}
    BY <1>1, <2>1, RunnableType DEF ContextTypes
  <2>3. PlaceTypes' /\ UNCHANGED deviceVars
    <3>1. CASE Refuse /\ UNCHANGED deviceVars
      BY <1>1, <3>1, RefusePlace
    <3>2. CASE exe_context[Command.exe] # NoContext /\ Proceed(Command, exe_context[Command.exe])
      BY <1>1, <2>1, <2>2, <3>2, ProceedPlace
    <3> QED BY <1>16, <3>1, <3>2 DEF DispatchKept
  <2> QED BY <1>1, <1>2, <1>3, <1>4, <1>16, <2>3 DEF DispatchKept
<1>17. CASE DispatchFails
  <2>1. PlaceTypes'
    BY <1>1, <1>17, RefusePlace, FaultPlace DEF DispatchFails
  <2> QED BY <1>1, <1>2, <1>3, <1>4, <1>17, <2>1 DEF DispatchFails
<1>18. CASE RunCall
  <2> DEFINE s == Head(run.calls)
             d == Submit(s, [dev |-> dev, config |-> config[run.context]])
  <2>1. s \in Slot /\ run.calls \in Seq(Slot) /\ Len(run.calls) \in Nat \ {0} /\ run.context \in Contexts
    BY <1>1, <1>18, RunAt DEF RunCall
  <2>2. DOMAIN d.dev = Buffers
    BY <1>1, <2>1, SubmitType DEF DataTypes
  <2> HIDE DEF d
  <2>3. UNCHANGED <<deallocated, image, cache, exe_context>>
    BY <1>18 DEF RunCall
  <2>4. CASE /\ dev' = d.dev /\ config' = [config EXCEPT ![run.context] = d.config]
             /\ host' = IF s.do = "sync" THEN Invalidated(Bindings(s.cmd)) ELSE host
             /\ IF Len(run.calls) = 1
                THEN pc' = "replay" /\ at' = at + 1 /\ run' = Idle
                ELSE UNCHANGED <<pc, at>> /\ run' = [run EXCEPT !.calls = Tail(@)]
             /\ UNCHANGED <<script, item, status, chainVars, historyVars>>
    <3>1. DataTypes'
      BY <1>1, <2>2, <2>3, <2>4, InvalidatedType DEF DataTypes
    <3>2. ContextTypes'
      BY <1>1, <2>3, <2>4 DEF ContextTypes
    <3>3. run' \in [context : Contexts \cup {NoContext}, calls : Seq(Slot)]
      <4>1. run \in [context : Contexts \cup {NoContext}, calls : Seq(Slot)] /\ Tail(run.calls) \in Seq(Slot)
        BY <1>1, <2>1 DEF PlaceTypes
      <4>2. run' = Idle \/ run' = [run EXCEPT !.calls = Tail(run.calls)]
        BY <2>4
      <4> QED BY ONLY <4>1, <4>2, IdleType
    <3>4. PlaceTypes'
      BY <1>1, <2>4, <3>3 DEF PlaceTypes, chainVars, historyVars
    <3> QED BY <1>1, <1>4, <3>1, <3>2, <3>4
  <2>5. CASE /\ Fault
             /\ \/ dev' = dev /\ config' = config
                \/ dev' = d.dev /\ config' = [config EXCEPT ![run.context] = d.config]
             /\ host' \in {host, Invalidated({s.cmd.from})}
    <3>1. DataTypes'
      BY <1>1, <2>2, <2>3, <2>5, InvalidatedType DEF DataTypes
    <3>2. ContextTypes'
      BY <1>1, <2>3, <2>5 DEF ContextTypes
    <3> QED BY <1>1, <1>4, <2>5, <3>1, <3>2, FaultPlace
  <2> QED BY <1>18, <2>4, <2>5 DEF RunCall, d
<1>19. CASE End
  <2>1. MaxSlots \in Nat
    BY ConstantsAssumption DEF MaxSlots
  <2>2. PlaceTypes'
    <3>1. CASE Succeed /\ UNCHANGED <<chainVars, historyVars>>
      BY <1>1, <3>1 DEF PlaceTypes, Succeed, chainVars, historyVars
    <3>2. CASE /\ pc' = "flush" /\ flushing' = FirstOf(1)
               /\ max_slots' = IF max_slots = 0 THEN MaxSlots ELSE max_slots
               /\ UNCHANGED <<script, item, at, status, run, groups, historyVars>>
      BY <1>1, <2>1, <3>2 DEF PlaceTypes, FirstOf, historyVars
    <3>3. CASE Fault
      BY <1>1, <3>3, FaultPlace
    <3> QED BY <1>19, <3>1, <3>2, <3>3 DEF End
  <2> QED BY <1>1, <1>2, <1>3, <1>4, <1>19, <2>2 DEF End
<1>20. CASE FlushChunk
  <2>1. PlaceTypes'
    <3>1. CASE Refuse \/ Fault
      BY <1>1, <3>1, RefusePlace, FaultPlace
    <3>2. CASE /\ pc' = "chain" /\ flushing' = [flushing EXCEPT !.slot = flushing.begin]
               /\ UNCHANGED <<script, item, at, status, run, groups, max_slots, historyVars>>
      BY <1>1, <3>2 DEF PlaceTypes, historyVars
    <3> QED BY <1>20, <3>1, <3>2 DEF FlushChunk
  <2> QED BY <1>1, <1>2, <1>3, <1>4, <1>20, <2>1 DEF FlushChunk
<1>21. CASE ChainSlot
  <2> DEFINE s == Flushing.slots[flushing.slot + 1]
             d == Submit(s, [dev |-> dev, config |-> config[Flushing.queue]])
             ran == dev' = d.dev /\ config' = [config EXCEPT ![Flushing.queue] = d.config]
  <2>1. s \in Slot
    BY <1>1, <1>21, ChainAt DEF ChainSlot
  <2>2. DOMAIN d.dev = Buffers
    BY <1>1, <2>1, SubmitType DEF DataTypes
  <2>3. /\ UNCHANGED <<host, deallocated, image, cache, exe_context>>
        /\ ran \/ UNCHANGED <<dev, config>>
    BY <1>21 DEF ChainSlot
  <2> HIDE DEF d
  <2>4. DataTypes' /\ ContextTypes'
    BY <1>1, <2>2, <2>3 DEF DataTypes, ContextTypes
  <2>5. PlaceTypes'
    <3>1. CASE Fault
      BY <1>1, <3>1, FaultPlace
    <3>2. CASE /\ \/ flushing' = [flushing EXCEPT !.slot = flushing.slot + 1] /\ UNCHANGED pc
                  \/ flushing' = [flushing EXCEPT !.begin = @ + max_slots] /\ pc' = "flush"
               /\ UNCHANGED <<script, item, at, status, run, groups, max_slots, historyVars>>
      BY <1>1, <3>2 DEF PlaceTypes, historyVars
    <3> QED BY <1>21, <3>1, <3>2 DEF ChainSlot
  <2> QED BY <1>1, <1>4, <2>4, <2>5
<1>22. CASE FlushSync
  <2>1. DataTypes'
    BY <1>1, <1>22, InvalidatedType DEF FlushSync, DataTypes
  <2>2. PlaceTypes'
    <3>1. CASE Fault
      BY <1>1, <3>1, FaultPlace
    <3>2. CASE Succeed /\ groups' = <<>> /\ UNCHANGED flushing /\ UNCHANGED <<max_slots, historyVars>>
      BY <1>1, <3>2, IdleType DEF PlaceTypes, Succeed, historyVars
    <3>3. CASE /\ flushing' = FirstOf(flushing.group + 1) /\ UNCHANGED <<placeVars, groups>>
               /\ UNCHANGED <<max_slots, historyVars>>
      BY <1>1, <3>3 DEF PlaceTypes, FirstOf, placeVars, historyVars
    <3> QED BY <1>22, <3>1, <3>2, <3>3 DEF FlushSync
  <2> QED BY <1>1, <1>3, <1>4, <1>22, <2>1, <2>2 DEF FlushSync
<1>23. CASE UNCHANGED vars
  BY <1>1, <1>2, <1>3, <1>23 DEF vars, PlaceTypes, placeVars, chainVars, historyVars
<1> QED BY <1>6, <1>7, <1>8, <1>9, <1>10, <1>11, <1>12, <1>13, <1>14, <1>15, <1>16, <1>17,
           <1>18, <1>19, <1>20, <1>21, <1>22, <1>23 DEF Next

-----------------------------------------------------------------------------
(***************************************************************************)
(* Places                                                                  *)
(***************************************************************************)

LEMMA AbortPlaces ==
  ASSUME Places, Abort
  PROVE  Places'
<1>1. pc' = "ended" /\ groups' = <<>> /\ max_slots' = max_slots
  BY DEF Abort
<1>2. MaxSlots' = MaxSlots
  BY DEF MaxSlots
<1> QED BY <1>1, <1>2 DEF Places, Busy

\* The replay goes on with the next command.
LEMMA NextCommandPlaces ==
  ASSUME TypeOK, Places, Replaying, NextCommand, max_slots' = max_slots,
         cmd_chain' = cmd_chain, groups' = groups \/ cmd_chain
  PROVE  Places'
<1>1. /\ pc = "replay" /\ Op.kind = "execute"
      /\ Len(Op.commands) \in Nat /\ at \in 1 .. Len(Op.commands)
  BY AtCommand
<1>2. pc' = pc /\ at' = at + 1 /\ status' = status /\ script' = script /\ item' = item
  BY DEF NextCommand
<1>3. Op' = Op
  BY <1>2 DEF Op
<1>4. MaxSlots' = MaxSlots
  BY DEF MaxSlots
<1>5. status = "ok" /\ max_slots \in {0, MaxSlots} /\ (~cmd_chain => groups = <<>>)
  BY <1>1 DEF Places
<1>6. at' \in 1 .. Len(Op.commands) + 1
  BY <1>1, <1>2
<1> QED BY <1>1, <1>2, <1>3, <1>4, <1>5, <1>6 DEF Places, Busy

LEMMA ProceedPlaces ==
  ASSUME TypeOK, Places, Dispatching, Command \in Runnable, NEW x \in Contexts,
         Proceed(Command, x), cmd_chain' = cmd_chain, cmd_chain \in BOOLEAN
  PROVE  Places'
<1>0. Replaying
  BY DEF Dispatching
<1>1. CASE Fault \/ Refuse
  BY <1>1, AbortPlaces DEF Fault, Refuse
<1>2. CASE cmd_chain /\ Accumulate(Command, x)
  <2>1. NextCommand /\ max_slots' = max_slots
    BY <1>2 DEF Accumulate
  <2> QED BY <1>0, <1>2, <2>1, NextCommandPlaces
<1>3. CASE NextCommand /\ UNCHANGED <<chainVars, deviceVars, historyVars>>
  <2>1. groups' = groups /\ max_slots' = max_slots
    BY <1>3 DEF chainVars
  <2> QED BY <1>0, <1>3, <2>1, NextCommandPlaces
<1>4. CASE /\ ~cmd_chain /\ Calls(Command) # <<>>
           /\ pc' = "run" /\ run' = [context |-> x, calls |-> Calls(Command)]
           /\ UNCHANGED <<script, item, at, status>>
           /\ UNCHANGED <<chainVars, deviceVars, historyVars>>
  <2>1. /\ pc = "replay" /\ Op.kind = "execute"
        /\ Len(Op.commands) \in Nat /\ at \in 1 .. Len(Op.commands)
    BY <1>0, AtCommand
  <2>2. Op' = Op /\ Command' = Command
    BY <1>4 DEF Op, Command
  <2>3. groups' = groups /\ max_slots' = max_slots /\ MaxSlots' = MaxSlots
    BY <1>4 DEF chainVars, MaxSlots
  <2>4. status = "ok" /\ max_slots \in {0, MaxSlots} /\ groups = <<>>
    BY <1>4, <2>1 DEF Places
  <2>5. /\ run'.context \in Contexts /\ run'.calls # <<>>
        /\ \A i \in DOMAIN run'.calls : run'.calls[i].cmd = Command
    BY <1>4, CallsType
  <2>6. Runnable' = Runnable
    BY DEF Runnable
  <2>7. at' \in 1 .. Len(Op.commands) + 1 /\ at' <= Len(Op.commands)
    BY <1>4, <2>1
  <2> QED BY <1>4, <2>1, <2>2, <2>3, <2>4, <2>5, <2>6, <2>7 DEF Places, Busy
<1> QED BY <1>1, <1>2, <1>3, <1>4 DEF Proceed

\* The exec buffer has room for a slot.
LEMMA SomeSlots == MaxSlots \in Nat \ {0} /\ 8 * MaxSlots <= ChainBytes
BY ConstantsAssumption, ExecBufferAssumption DEF MaxSlots

\* A chunk that is not empty ends behind its begin, and has at most MaxSlots slots.
LEMMA ChunkBounds ==
  ASSUME PlaceTypes, Places, pc \in {"flush", "chain"}, NEW b \in Nat, b < Len(Flushing.slots)
  PROVE  /\ ChunkEnd(b) \in Nat /\ b < ChunkEnd(b) /\ ChunkEnd(b) <= Len(Flushing.slots)
         /\ ChunkEnd(b) - b <= MaxSlots
<1>1. Len(Flushing.slots) \in Nat
  BY ChainAt
<1>2. max_slots = MaxSlots
  BY DEF Places
<1> QED BY <1>1, <1>2, SomeSlots DEF ChunkEnd

\* Every step keeps what the places of the worker exclude.
LEMMA PlacesStep ==
  ASSUME TypeOK, Shapes, Places, [Next]_vars
  PROVE  Places'
<1>1. PlaceTypes /\ DataTypes /\ ContextTypes /\ cmd_chain \in BOOLEAN
  BY TypesSplit
<1>2. cmd_chain' = cmd_chain /\ MaxSlots' = MaxSlots /\ Runnable' = Runnable
  BY DEF Next, vars, MaxSlots, Runnable
<1>3. script' = script /\ item' = item => Op' = Op
  BY DEF Op
<1>4. max_slots \in {0, MaxSlots}
  BY DEF Places
<1>5. CASE QueueExecute
  <2>1. /\ pc = "start" /\ Op.kind = "execute" /\ UNCHANGED <<script, item, run, groups, flushing, max_slots>>
        /\ at' = 1 /\ ((pc' = "replay" /\ status' = status) \/ pc' = "ended")
    BY <1>5 DEF QueueExecute, Starting, chainVars
  <2>2. groups = <<>> /\ status = "ok"
    BY <2>1 DEF Places
  <2>3. 1 \in 1 .. Len(Op.commands) + 1
    BY <2>1, OpType
  <2> QED BY <1>2, <1>3, <1>4, <2>1, <2>2, <2>3 DEF Places, Busy
<1>6. CASE QueueCopy \/ QueueBarrier \/ QueueDealloca
  <2>1. pc = "start" /\ pc' = "ended" /\ UNCHANGED <<groups, max_slots>>
    BY <1>6 DEF QueueCopy, QueueBarrier, QueueDealloca, Starting, Succeed, chainVars
  <2>2. groups = <<>>
    BY <2>1 DEF Places
  <2> QED BY <1>2, <1>4, <2>1, <2>2 DEF Places, Busy
<1>7. CASE NextOperation
  <2>1. pc = "ended" /\ UNCHANGED <<groups, max_slots>> /\ (pc' = "done" \/ (pc' = "start" /\ status' = "ok"))
    BY <1>7 DEF NextOperation, chainVars
  <2>2. groups = <<>>
    BY <2>1 DEF Places
  <2> QED BY <1>2, <1>4, <2>1, <2>2 DEF Places, Busy
<1>8. CASE Barrier \/ Write \/ Copy
  <2>1. Replaying /\ (Abort \/ (NextCommand /\ UNCHANGED <<chainVars, historyVars>>))
    BY <1>8 DEF Barrier, Write, Copy, Fault, Refuse
  <2>2. CASE Abort
    BY <2>2, AbortPlaces
  <2>3. CASE NextCommand /\ UNCHANGED <<chainVars, historyVars>>
    <3>1. groups' = groups /\ max_slots' = max_slots
      BY <2>3 DEF chainVars
    <3> QED BY <1>2, <2>1, <2>3, <3>1, NextCommandPlaces
  <2> QED BY <2>1, <2>2, <2>3
<1>9. CASE DispatchFails
  BY <1>9, AbortPlaces DEF DispatchFails, Fault, Refuse
<1>10. CASE DispatchFresh \/ DispatchCached \/ DispatchKept
  <2>1. Dispatching /\ Command \in Runnable
    BY <1>10, DispatchRunnable DEF DispatchFresh, DispatchCached, DispatchKept
  <2>2. exe_context[Command.exe] \in Contexts \cup {NoContext}
    BY <1>1, <2>1, RunnableType DEF ContextTypes
  <2>3. Refuse \/ \E x \in Contexts : Proceed(Command, x)
    BY <1>10, <2>2 DEF DispatchFresh, DispatchCached, DispatchKept
  <2> QED BY <1>1, <1>2, <2>1, <2>3, AbortPlaces, ProceedPlaces DEF Refuse
<1>11. CASE RunCall
  <2>1. pc = "run"
    BY <1>11 DEF RunCall
  <2>2. CASE Fault
    BY <2>2, AbortPlaces DEF Fault
  <2>3. CASE /\ IF Len(run.calls) = 1
                THEN pc' = "replay" /\ at' = at + 1 /\ run' = Idle
                ELSE UNCHANGED <<pc, at>> /\ run' = [run EXCEPT !.calls = Tail(@)]
             /\ UNCHANGED <<script, item, status, chainVars, historyVars>>
    <3>1. UNCHANGED <<script, item, status, groups, max_slots>> /\ Op' = Op
      BY <1>3, <2>3 DEF chainVars
    <3>2. /\ status = "ok" /\ Op.kind = "execute" /\ at \in 1 .. Len(Op.commands) + 1
          /\ groups = <<>> /\ at <= Len(Op.commands)
      BY <2>1 DEF Places, Busy
    <3>3. Len(Op.commands) \in Nat
      BY <3>2, OpType
    <3>4. CASE Len(run.calls) = 1
      <4>1. pc' = "replay" /\ at' = at + 1
        BY <2>3, <3>4
      <4>2. at' \in 1 .. Len(Op.commands) + 1
        BY <3>2, <3>3, <4>1
      <4> QED BY <1>2, <1>4, <3>1, <3>2, <4>1, <4>2 DEF Places, Busy
    <3>5. CASE Len(run.calls) # 1
      <4>1. /\ run.calls \in Seq(Slot) /\ Len(run.calls) \in Nat \ {0} /\ run.context \in Contexts
            /\ Command \in Runnable
        BY <1>1, <2>1, RunAt
      <4>2. pc' = "run" /\ at' = at /\ run'.context = run.context /\ run'.calls = Tail(run.calls)
        BY <1>1, <2>1, <2>3, <3>5 DEF PlaceTypes
      <4>3. Command' = Command
        BY <3>1, <4>2 DEF Command
      <4>4. \A i \in DOMAIN run.calls : run.calls[i].cmd = Command
        BY <2>1 DEF Places
      <4>5. Tail(run.calls) # <<>> /\ \A i \in DOMAIN Tail(run.calls) : Tail(run.calls)[i].cmd = Command
        <5> DEFINE t == Tail(run.calls)
        <5>1. /\ t \in Seq(Slot) /\ Len(t) = Len(run.calls) - 1
              /\ \A i \in 1 .. Len(t) : t[i] = run.calls[i + 1]
          BY <4>1, HeadTailProperties
        <5> HIDE DEF t
        <5>2. DOMAIN t = 1 .. Len(t) /\ t # <<>>
          <6>1. Len(t) \in Nat /\ DOMAIN t = 1 .. Len(t)
            BY ONLY <5>1
          <6>2. Len(run.calls) - 1 # 0
            BY ONLY <3>5, <4>1
          <6>3. t = <<>> => Len(t) = 0
            OBVIOUS
          <6> QED BY ONLY <5>1, <6>1, <6>2, <6>3, Zenon
        <5>3. \A i \in 1 .. Len(t) : i + 1 \in DOMAIN run.calls
          BY <4>1, <5>1
        <5>4. t # <<>> /\ \A i \in DOMAIN t : t[i].cmd = Command
          BY <4>4, <5>1, <5>2, <5>3
        <5> QED BY <5>4 DEF t
      <4> QED BY <1>2, <1>4, <3>1, <3>2, <4>1, <4>2, <4>3, <4>5 DEF Places, Busy
    <3> QED BY <3>4, <3>5
  <2> QED BY <1>11, <2>2, <2>3 DEF RunCall
<1>12. CASE End
  <2>1. pc = "replay" /\ at > Len(Op.commands)
    BY <1>12 DEF End
  <2>2. status = "ok" /\ Op.kind = "execute" /\ at \in 1 .. Len(Op.commands) + 1
    BY <2>1 DEF Places, Busy
  <2>3. Len(Op.commands) \in Nat
    BY <2>2, OpType
  <2>4. CASE Fault
    BY <2>4, AbortPlaces DEF Fault
  <2>5. CASE groups = <<>> /\ Succeed /\ UNCHANGED <<chainVars, historyVars>>
    <3>1. pc' = "ended" /\ groups' = <<>> /\ max_slots' = max_slots
      BY <2>5 DEF Succeed, chainVars
    <3> QED BY <1>2, <1>4, <3>1 DEF Places, Busy
  <2>6. CASE /\ groups # <<>>
             /\ pc' = "flush" /\ flushing' = FirstOf(1)
             /\ max_slots' = IF max_slots = 0 THEN MaxSlots ELSE max_slots
             /\ UNCHANGED <<script, item, at, status, run, groups, historyVars>>
    <3>1. max_slots' = MaxSlots
      BY <1>4, <2>6
    <3>2. cmd_chain
      BY <1>1, <2>6 DEF Places
    <3>3. at = Len(Op.commands) + 1
      BY <2>1, <2>2, <2>3
    <3>4. flushing'.group = 1 /\ 1 \in 1 .. Len(groups)
      BY <1>1, <2>6 DEF FirstOf, PlaceTypes
    <3> QED BY <1>2, <1>3, <2>2, <2>6, <3>1, <3>2, <3>3, <3>4 DEF Places, Busy
  <2> QED BY <1>12, <2>4, <2>5, <2>6 DEF End
<1>13. CASE FlushChunk
  <2>1. pc = "flush" /\ flushing.begin < Len(Flushing.slots)
    BY <1>13 DEF FlushChunk
  <2>2. CASE Refuse \/ Fault
    BY <2>2, AbortPlaces DEF Fault, Refuse
  <2>3. CASE /\ pc' = "chain" /\ flushing' = [flushing EXCEPT !.slot = flushing.begin]
             /\ UNCHANGED <<script, item, at, status, run, groups, max_slots, historyVars>>
    <3>1. flushing'.group = flushing.group /\ flushing'.begin = flushing.begin /\ flushing'.slot = flushing.begin
      BY <1>1, <2>3 DEF PlaceTypes
    <3>2. ChunkEnd(flushing.begin)' = ChunkEnd(flushing.begin)
      BY <2>3, <3>1 DEF ChunkEnd, Flushing
    <3>3. flushing.begin \in Nat /\ flushing.begin < ChunkEnd(flushing.begin)
      BY <1>1, <2>1, ChunkBounds DEF PlaceTypes
    <3>4. /\ status = "ok" /\ Op.kind = "execute" /\ at \in 1 .. Len(Op.commands) + 1
          /\ at = Len(Op.commands) + 1 /\ flushing.group \in 1 .. Len(groups) /\ max_slots = MaxSlots
          /\ (~cmd_chain => groups = <<>>)
      BY <2>1 DEF Places, Busy
    <3> QED BY <1>2, <1>3, <2>3, <3>1, <3>2, <3>3, <3>4 DEF Places, Busy
  <2> QED BY <1>13, <2>2, <2>3 DEF FlushChunk
<1>14. CASE ChainSlot
  <2>1. pc = "chain"
    BY <1>14 DEF ChainSlot
  <2>2. CASE Fault
    BY <2>2, AbortPlaces DEF Fault
  <2>3. CASE /\ IF flushing.slot + 1 < ChunkEnd(flushing.begin)
                THEN flushing' = [flushing EXCEPT !.slot = flushing.slot + 1] /\ UNCHANGED pc
                ELSE flushing' = [flushing EXCEPT !.begin = @ + max_slots] /\ pc' = "flush"
             /\ UNCHANGED <<script, item, at, status, run, groups, max_slots, historyVars>>
    <3>1. flushing'.group = flushing.group
      BY <1>1, <2>3 DEF PlaceTypes
    <3>2. /\ status = "ok" /\ Op.kind = "execute" /\ at \in 1 .. Len(Op.commands) + 1
          /\ at = Len(Op.commands) + 1 /\ flushing.group \in 1 .. Len(groups) /\ max_slots = MaxSlots
          /\ (~cmd_chain => groups = <<>>) /\ flushing.begin <= flushing.slot
      BY <2>1 DEF Places, Busy
    <3>3. CASE flushing.slot + 1 < ChunkEnd(flushing.begin)
      <4>1. flushing'.begin = flushing.begin /\ flushing'.slot = flushing.slot + 1 /\ pc' = pc
        BY <1>1, <2>3, <3>3 DEF PlaceTypes
      <4>2. ChunkEnd(flushing.begin)' = ChunkEnd(flushing.begin)
        BY <2>3, <3>1, <4>1 DEF ChunkEnd, Flushing
      <4>3. flushing.begin <= flushing.slot + 1
        BY <1>1, <3>2 DEF PlaceTypes
      <4> QED BY <1>2, <1>3, <2>1, <2>3, <3>1, <3>2, <3>3, <4>1, <4>2, <4>3 DEF Places, Busy
    <3>4. CASE ~(flushing.slot + 1 < ChunkEnd(flushing.begin))
      BY <1>2, <1>3, <2>3, <3>1, <3>2, <3>4 DEF Places, Busy
    <3> QED BY <3>3, <3>4
  <2> QED BY <1>14, <2>2, <2>3 DEF ChainSlot
<1>15. CASE FlushSync
  <2>1. pc = "flush"
    BY <1>15 DEF FlushSync
  <2>2. CASE Fault
    BY <2>2, AbortPlaces DEF Fault
  <2>3. CASE Succeed /\ groups' = <<>> /\ UNCHANGED <<max_slots, historyVars>>
    <3>1. pc' = "ended" /\ groups' = <<>> /\ max_slots' = max_slots
      BY <2>3 DEF Succeed
    <3> QED BY <1>2, <1>4, <3>1 DEF Places, Busy
  <2>4. CASE /\ flushing.group # Len(groups) /\ flushing' = FirstOf(flushing.group + 1)
             /\ UNCHANGED <<placeVars, groups>> /\ UNCHANGED <<max_slots, historyVars>>
    <3>1. /\ status = "ok" /\ Op.kind = "execute" /\ at \in 1 .. Len(Op.commands) + 1
          /\ at = Len(Op.commands) + 1 /\ flushing.group \in 1 .. Len(groups) /\ max_slots = MaxSlots
          /\ (~cmd_chain => groups = <<>>)
      BY <2>1 DEF Places, Busy
    <3>2. flushing'.group \in 1 .. Len(groups)
      BY <1>1, <2>4, <3>1 DEF FirstOf, PlaceTypes
    <3>3. UNCHANGED <<script, item, pc, at, status, groups, max_slots>>
      BY <2>4 DEF placeVars
    <3> QED BY <1>2, <1>3, <2>1, <3>1, <3>2, <3>3 DEF Places, Busy
  <2> QED BY <1>15, <2>2, <2>3, <2>4 DEF FlushSync
<1>16. CASE UNCHANGED vars
  <2>1. UNCHANGED <<script, item, pc, at, status, run, groups, flushing, max_slots>>
    BY <1>16 DEF vars, placeVars, chainVars
  <2>2. Op' = Op /\ Command' = Command /\ ChunkEnd(flushing.begin)' = ChunkEnd(flushing.begin)
    BY <2>1 DEF Op, Command, ChunkEnd, Flushing
  <2> QED BY <1>2, <2>1, <2>2 DEF Places, Busy
<1> QED BY <1>5, <1>6, <1>7, <1>8, <1>9, <1>10, <1>11, <1>12, <1>13, <1>14, <1>15, <1>16 DEF Next

-----------------------------------------------------------------------------
(***************************************************************************)
(* Images                                                                  *)
(***************************************************************************)

\* A context is created at an address nobody refers to, so the image of a
\* context that is alive never changes.
LEMMA NewContextImages ==
  ASSUME ContextTypes, NEW x \in Contexts, NEW key, NewContext(x, key)
  PROVE  x \notin Alive /\ image'[x] = key /\ \A y \in Alive \cap Contexts : image'[y] = image[y]
BY DEF ContextTypes, NewContext

\* A context in the cache is alive.
LEMMA CacheAlive ==
  ASSUME ContextTypes, NEW k \in DOMAIN cache, cache[k] # NoContext
  PROVE  cache[k] \in Alive \cap Contexts
BY DEF ContextTypes, Alive

\* get_or_create_context gives a context with the image asked for, and leaves
\* the images of the contexts that are alive.
LEMMA GetOrCreateImages ==
  ASSUME ContextTypes, CacheImages, NEW e \in AllEntries, NEW x \in Contexts, GetOrCreate(e, x)
  PROVE  /\ image'[x] = Key(e) /\ \A y \in Alive \cap Contexts : image'[y] = image[y]
         /\ CacheImages'
<1>1. Key(e) \in DOMAIN cache
  BY DEF ContextTypes, CacheKey
<1>2. CASE cache[Key(e)] # NoContext
  <2>1. x = cache[Key(e)] /\ UNCHANGED <<image, cache>>
    BY <1>2 DEF GetOrCreate, CacheKey
  <2> QED BY <1>1, <1>2, <2>1 DEF CacheImages
<1>3. CASE cache[Key(e)] = NoContext
  <2>1. NewContext(x, Key(e)) /\ cache' = [cache EXCEPT ![Key(e)] = x]
    BY <1>3 DEF GetOrCreate, CacheKey
  <2>2. image'[x] = Key(e) /\ \A y \in Alive \cap Contexts : image'[y] = image[y]
    BY <2>1, NewContextImages
  <2> QED BY <1>1, <2>1, <2>2, CacheAlive DEF CacheImages
<1> QED BY <1>2, <1>3

\* The context of a group is alive.
LEMMA GroupsAlive ==
  ASSUME PlaceTypes, GroupImages, NEW i \in DOMAIN groups
  PROVE  groups[i].queue \in Alive \cap Contexts
<1>1. groups[i] \in Group /\ groups[i].context = groups[i].queue
  BY DEF PlaceTypes, GroupImages
<1>2. groups[i].context \in Contexts /\ groups[i].context # NoContext
  BY <1>1, ConstantsAssumption DEF Group
<1> QED BY <1>1, <1>2 DEF Alive

\* A dispatch joins a group of its own context.
LEMMA ProceedImages ==
  ASSUME PlaceTypes, GroupImages, NEW c \in Runnable, NEW x \in Contexts, Proceed(c, x),
         \A y \in Alive \cap Contexts : image'[y] = image[y],
         Entry(c).pdi # NoPdi => image'[x] = Key(Entry(c))
  PROVE  GroupImages'
<1>1. CASE Fault \/ Refuse
  <2>1. groups' = <<>>
    BY <1>1 DEF Fault, Refuse, Abort
  <2> QED BY <2>1 DEF GroupImages
<1>2. ASSUME groups' = groups PROVE GroupImages'
  <2>1. \A i \in DOMAIN groups : image'[groups[i].queue] = image[groups[i].queue]
    BY GroupsAlive
  <2> QED BY <1>2, <2>1 DEF GroupImages, Entry, Key
<1>3. CASE Accumulate(c, x)
  <2>1. PICK n \in Nat \ {0}, g \in Group :
          /\ g.queue = x
          /\ \/ n = Len(groups) + 1 /\ g = NewGroup(x)
             \/ n = Len(groups) /\ g = groups[n]
          /\ groups' \in Seq(Group) /\ Len(groups') = n /\ groups'[n] = Grown(g, c)
          /\ \A i \in 1 .. n - 1 : i \in DOMAIN groups /\ groups'[i] = groups[i]
    BY <1>3, AccumulateGroups DEF PlaceTypes
  <2>2. groups \in Seq(Group) /\ (n = Len(groups) => n \in DOMAIN groups)
    BY <2>1 DEF PlaceTypes
  <2>3. g.context = x /\ \A k \in DOMAIN g.slots :
          Entry(g.slots[k].cmd).pdi # NoPdi => image'[x] = Key(Entry(g.slots[k].cmd))
    <3>1. CASE g = NewGroup(x)
      BY <3>1 DEF NewGroup
    <3>2. CASE n = Len(groups) /\ g = groups[n]
      <4>1. g.context = g.queue /\ g.queue \in Alive \cap Contexts
        BY <2>2, <3>2, GroupsAlive DEF GroupImages
      <4> QED BY <2>1, <2>2, <3>2, <4>1 DEF GroupImages
    <3> QED BY <2>1, <3>1, <3>2
  <2>4. /\ groups'[n].context = groups'[n].queue
        /\ \A j \in DOMAIN groups'[n].slots :
             Entry(groups'[n].slots[j].cmd).pdi # NoPdi
               => image'[groups'[n].queue] = Key(Entry(groups'[n].slots[j].cmd))
    <3>1. groups'[n].context = x /\ groups'[n].queue = x
      BY <2>1, <2>3, GrownType
    <3>2. \A j \in DOMAIN groups'[n].slots :
            \/ groups'[n].slots[j].cmd = c
            \/ \E k \in DOMAIN g.slots : groups'[n].slots[j] = g.slots[k]
      BY <2>1, GrownType
    <3> QED BY <2>3, <3>1, <3>2
  <2>5. ASSUME NEW i \in DOMAIN groups', i # n
        PROVE  /\ groups'[i].context = groups'[i].queue
               /\ \A j \in DOMAIN groups'[i].slots :
                    Entry(groups'[i].slots[j].cmd).pdi # NoPdi
                      => image'[groups'[i].queue] = Key(Entry(groups'[i].slots[j].cmd))
    <3>1. i \in DOMAIN groups /\ groups'[i] = groups[i]
      BY <2>1, <2>5
    <3>2. image'[groups[i].queue] = image[groups[i].queue]
      BY <3>1, GroupsAlive
    <3> QED BY <3>1, <3>2 DEF GroupImages
  <2> QED BY <2>4, <2>5 DEF GroupImages, Entry, Key
<1>4. CASE UNCHANGED <<chainVars, deviceVars, historyVars>>
  BY <1>2, <1>4 DEF chainVars
<1> QED BY <1>1, <1>3, <1>4 DEF Proceed

\* Every step keeps the images that contexts are looked up by.
LEMMA ImagesStep ==
  ASSUME TypeOK, Shapes, Places, Images, [Next]_vars
  PROVE  Images'
<1>1. PlaceTypes /\ ContextTypes /\ cmd_chain \in BOOLEAN
  BY TypesSplit
<1>2. CacheImages /\ GroupImages
  BY DEF Images
<1>3. ASSUME UNCHANGED <<image, cache>>, groups' \in {groups, <<>>} PROVE Images'
  <2>1. CacheImages'
    BY <1>2, <1>3 DEF CacheImages
  <2>2. CASE groups' = groups
    BY <1>2, <1>3, <2>1, <2>2 DEF Images, GroupImages, Entry, Key
  <2>3. CASE groups' = <<>>
    BY <2>1, <2>3 DEF Images, GroupImages
  <2> QED BY <1>3, <2>2, <2>3
<1>4. \A k \in DOMAIN cache : cache[k] # NoContext => cache[k] \in Alive \cap Contexts
  BY <1>1, CacheAlive
<1>5. UNCHANGED contextVars => UNCHANGED <<image, cache>>
  BY DEF contextVars
<1>6. CASE QueueExecute \/ QueueCopy \/ QueueBarrier \/ QueueDealloca \/ NextOperation
  BY <1>3, <1>5, <1>6 DEF QueueExecute, QueueCopy, QueueBarrier, QueueDealloca, NextOperation, chainVars
<1>7. CASE Barrier \/ Write \/ Copy \/ DispatchFails
  <2>1. groups' \in {groups, <<>>}
    BY <1>7 DEF Barrier, Write, Copy, DispatchFails, Refuse, Fault, Abort, chainVars
  <2> QED BY <1>3, <1>5, <1>7, <2>1 DEF Barrier, Write, Copy, DispatchFails
<1>8. CASE RunCall \/ End \/ FlushChunk \/ ChainSlot \/ FlushSync
  <2>1. groups' \in {groups, <<>>}
    BY <1>8 DEF RunCall, End, FlushChunk, ChainSlot, FlushSync, Refuse, Fault, Abort, chainVars
  <2>2. UNCHANGED <<image, cache>>
    BY <1>5, <1>8 DEF RunCall, End, FlushChunk, ChainSlot, FlushSync
  <2> QED BY <1>3, <2>1, <2>2
<1>9. CASE DispatchFresh
  <2>1. Command \in Runnable /\ cache' = cache
    BY <1>9, DispatchRunnable DEF DispatchFresh
  <2>2. PICK x \in Contexts : NewContext(x, Key(Entry(Command))) /\ Proceed(Command, x)
    BY <1>9 DEF DispatchFresh
  <2>3. image'[x] = Key(Entry(Command)) /\ \A y \in Alive \cap Contexts : image'[y] = image[y]
    BY <1>1, <2>2, NewContextImages
  <2>4. GroupImages'
    BY <1>1, <1>2, <2>1, <2>2, <2>3, ProceedImages
  <2>5. CacheImages'
    BY <1>2, <1>4, <2>1, <2>3 DEF CacheImages
  <2> QED BY <2>4, <2>5 DEF Images
<1>10. CASE DispatchCached
  <2>1. Command \in Runnable
    BY <1>10, DispatchRunnable DEF DispatchCached
  <2> DEFINE e == Entry(Command)
  <2>2. PICK x \in Contexts : GetOrCreate(e, x) /\ (Refuse \/ Proceed(Command, x))
    BY <1>10 DEF DispatchCached
  <2>3. e \in AllEntries
    BY <2>1, RunnableType
  <2> HIDE DEF e
  <2>4. /\ image'[x] = Key(e) /\ \A y \in Alive \cap Contexts : image'[y] = image[y]
        /\ CacheImages'
    BY <1>1, <1>2, <2>2, <2>3, GetOrCreateImages
  <2>5. GroupImages'
    <3>1. CASE Refuse
      BY <3>1 DEF Refuse, Abort, GroupImages
    <3>2. CASE Proceed(Command, x)
      BY <1>1, <1>2, <2>1, <2>4, <3>2, ProceedImages DEF e
    <3> QED BY <2>2, <3>1, <3>2
  <2> QED BY <2>4, <2>5 DEF Images
<1>11. CASE DispatchKept
  <2>1. Command \in Runnable /\ UNCHANGED <<image, cache>> /\ Entry(Command).pdi = NoPdi
    BY <1>5, <1>11, DispatchRunnable DEF DispatchKept
  <2> DEFINE x == exe_context[Command.exe]
  <2>2. x \in Contexts \cup {NoContext}
    BY <1>1, <2>1, RunnableType DEF ContextTypes
  <2>3. Refuse \/ (x \in Contexts /\ Proceed(Command, x))
    BY <1>11, <2>2 DEF DispatchKept
  <2>4. CASE Refuse
    BY <1>3, <2>1, <2>4 DEF Refuse, Abort
  <2>5. CASE x \in Contexts /\ Proceed(Command, x)
    <3>1. GroupImages'
      BY <1>1, <1>2, <2>1, <2>5, ProceedImages
    <3>2. CacheImages'
      BY <1>2, <2>1 DEF CacheImages
    <3> QED BY <3>1, <3>2 DEF Images
  <2> QED BY <2>3, <2>4, <2>5
<1>12. CASE UNCHANGED vars
  BY <1>3, <1>5, <1>12 DEF vars, chainVars
<1> QED BY <1>6, <1>7, <1>8, <1>9, <1>10, <1>11, <1>12 DEF Next

-----------------------------------------------------------------------------
(***************************************************************************)
(* Fits                                                                    *)
(***************************************************************************)

\* What the commands replayed so far weigh.
Replayed == Units(Op.commands, at - 1)

\* The command that ends adds its weight.
LEMMA ReplayedNext ==
  ASSUME TypeOK, at \in 1 .. Len(Op.commands), Len(Op.commands) \in Nat, IsFiniteSet(Replayed),
         Command.do # "dispatch" \/ Command \in Runnable, at' = at + 1, Op' = Op
  PROVE  /\ IsFiniteSet(Replayed') /\ Cardinality(Replayed) \in Nat
         /\ Cardinality(Replayed') = Cardinality(Replayed) + Weight(Command)
<1> DEFINE n == at - 1
<1>1. n \in Nat /\ n + 1 = at /\ at' - 1 = n + 1
  OBVIOUS
<1>2. Command = Op.commands[n + 1] /\ Replayed = Units(Op.commands, n)
  BY <1>1 DEF Command, Replayed
<1>3. Replayed' = Units(Op.commands, n + 1)
  BY <1>1 DEF Replayed
<1> HIDE DEF n
<1>4. Weight(Op.commands[n + 1]) \in Nat
  BY <1>2, WeightType
<1>5. IsFiniteSet(Units(Op.commands, n))
  BY <1>2
<1> QED BY <1>1, <1>2, <1>3, <1>4, <1>5, UnitsNext

LEMMA LoadType ==
  ASSUME NEW g \in Group
  PROVE  Load(g) \in Nat
<1>1. g.slots \in Seq(Slot) /\ g.bindings \in Seq(Buffers) /\ g.sequences \in Nat
  BY DEF Group
<1>2. Len(g.slots) \in Nat /\ Len(g.bindings) \in Nat
  BY <1>1
<1> QED BY <1>1, <1>2 DEF Load

\* Every step keeps the groups within the weight of the commands.
LEMMA FitsStep ==
  ASSUME TypeOK, Shapes, Places, Fits, [Next]_vars
  PROVE  Fits'
<1>1. PlaceTypes /\ ContextTypes /\ cmd_chain \in BOOLEAN /\ cmd_chain' = cmd_chain
  BY TypesSplit DEF Next, vars
<1>2. Fits <=> (Busy /\ cmd_chain =>
                  /\ IsFiniteSet(Replayed)
                  /\ \A i \in DOMAIN groups : Load(groups[i]) <= Cardinality(Replayed))
  BY DEF Fits, Replayed
<1>3. Fits' <=> (Busy' /\ cmd_chain =>
                  /\ IsFiniteSet(Replayed')
                  /\ \A i \in DOMAIN groups' : Load(groups'[i]) <= Cardinality(Replayed'))
  BY <1>1 DEF Fits, Replayed, Load
<1>4. ASSUME Busy, Op' = Op, at' = at, groups' = groups PROVE Fits'
  <2>1. Replayed' = Replayed
    BY <1>4 DEF Replayed
  <2> QED BY <1>2, <1>3, <1>4, <2>1
<1>5. ~Busy' => Fits'
  BY <1>3
<1>6. ASSUME Busy, groups' = groups, Op' = Op, at' = at + 1, at <= Len(Op.commands),
             Command.do # "dispatch" \/ Command \in Runnable
      PROVE  Fits'
  <2>1. at \in 1 .. Len(Op.commands) /\ Len(Op.commands) \in Nat
    BY <1>6, OpType DEF Places
  <2>2. SUFFICES ASSUME cmd_chain
                 PROVE  /\ IsFiniteSet(Replayed')
                        /\ \A i \in DOMAIN groups' : Load(groups'[i]) <= Cardinality(Replayed')
    BY <1>3
  <2>3. IsFiniteSet(Replayed) /\ \A i \in DOMAIN groups : Load(groups[i]) <= Cardinality(Replayed)
    BY <1>2, <1>6, <2>2
  <2>4. /\ IsFiniteSet(Replayed') /\ Cardinality(Replayed) \in Nat
        /\ Cardinality(Replayed') = Cardinality(Replayed) + Weight(Command)
    BY <1>6, <2>1, <2>3, ReplayedNext
  <2>5. Weight(Command) \in Nat
    BY <1>6, WeightType
  <2>6. \A i \in DOMAIN groups : Load(groups[i]) \in Nat
    BY <1>1, LoadType DEF PlaceTypes
  <2> QED BY <1>6, <2>3, <2>4, <2>5, <2>6
<1>7. script' = script /\ item' = item => Op' = Op
  BY DEF Op
<1>8. CASE QueueExecute
  <2>1. Op' = Op /\ at' = 1 /\ groups' = groups /\ pc = "start" /\ Op.kind = "execute"
    BY <1>7, <1>8 DEF QueueExecute, Starting, chainVars
  <2>2. Replayed' = Units(Op.commands, 0)
    BY <2>1 DEF Replayed
  <2>3. groups' = <<>>
    BY <2>1 DEF Places
  <2> QED BY <1>3, <2>2, <2>3, UnitsNone
<1>9. CASE QueueCopy \/ QueueBarrier \/ QueueDealloca \/ NextOperation
  BY <1>5, <1>9 DEF QueueCopy, QueueBarrier, QueueDealloca, NextOperation, Succeed, Busy
<1>10. Refuse \/ Fault => Fits'
  BY <1>5 DEF Refuse, Fault, Abort, Busy
<1>11. CASE Barrier \/ Write \/ Copy
  <2>1. /\ Replaying /\ Command.do # "dispatch"
        /\ Refuse \/ Fault \/ (NextCommand /\ UNCHANGED <<chainVars, historyVars>>)
    BY <1>11 DEF Barrier, Write, Copy
  <2>2. CASE NextCommand /\ UNCHANGED <<chainVars, historyVars>>
    <3>1. Busy /\ groups' = groups /\ Op' = Op /\ at' = at + 1 /\ at <= Len(Op.commands)
      BY <1>7, <2>1, <2>2 DEF Replaying, NextCommand, chainVars, Busy
    <3> QED BY <1>6, <2>1, <3>1
  <2> QED BY <1>10, <2>1, <2>2
<1>12. CASE DispatchFails
  BY <1>10, <1>12 DEF DispatchFails
<1>13. CASE DispatchFresh \/ DispatchCached \/ DispatchKept
  <2>1. Dispatching /\ Command \in Runnable
    BY <1>13, DispatchRunnable DEF DispatchFresh, DispatchCached, DispatchKept
  <2>2. exe_context[Command.exe] \in Contexts \cup {NoContext}
    BY <1>1, <2>1, RunnableType DEF ContextTypes
  <2>3. Refuse \/ \E x \in Contexts : Proceed(Command, x)
    BY <1>13, <2>2 DEF DispatchFresh, DispatchCached, DispatchKept
  <2>4. ASSUME NEW x \in Contexts, Proceed(Command, x), cmd_chain, ~Refuse, ~Fault PROVE Fits'
    <3>1. Accumulate(Command, x)
      BY <2>4 DEF Proceed
    <3>2. PICK n \in Nat \ {0}, g \in Group :
            /\ g.queue = x
            /\ \/ n = Len(groups) + 1 /\ g = NewGroup(x)
               \/ n = Len(groups) /\ g = groups[n]
            /\ groups' \in Seq(Group) /\ Len(groups') = n /\ groups'[n] = Grown(g, Command)
            /\ \A i \in 1 .. n - 1 : i \in DOMAIN groups /\ groups'[i] = groups[i]
      BY <1>1, <2>1, <3>1, AccumulateGroups DEF PlaceTypes
    <3>3. Replaying /\ Busy /\ Command.do = "dispatch"
      BY <2>1 DEF Dispatching, Replaying, Busy
    <3>4. Op' = Op /\ at' = at + 1
      BY <1>7, <3>1 DEF Accumulate, NextCommand
    <3>5. at \in 1 .. Len(Op.commands) /\ Len(Op.commands) \in Nat
      BY <3>3, AtCommand
    <3>6. IsFiniteSet(Replayed) /\ \A i \in DOMAIN groups : Load(groups[i]) <= Cardinality(Replayed)
      BY <1>2, <2>4, <3>3
    <3>7. /\ IsFiniteSet(Replayed') /\ Cardinality(Replayed) \in Nat
          /\ Cardinality(Replayed') = Cardinality(Replayed) + Weight(Command)
      BY <2>1, <3>4, <3>5, <3>6, ReplayedNext
    <3>8. Weight(Command) \in Nat /\ Load(Grown(g, Command)) = Load(g) + Weight(Command)
      <4>1. /\ Weight(Command) \in Nat
            /\ Weight(Command) = Len(Slots(Command)) + Entry(Command).reconfigurations + 2
        BY <2>1, <3>3, WeightType
      <4>2. Load(Grown(g, Command)) = Load(g) + Len(Slots(Command)) + Entry(Command).reconfigurations + 2
        BY <2>1, GrownType
      <4>3. Load(g) \in Nat /\ Len(Slots(Command)) \in Nat /\ Entry(Command).reconfigurations \in Nat
        BY <2>1, LoadType, SlotsType, RunnableType DEF EntryPoint
      <4> QED BY ONLY <4>1, <4>2, <4>3
    <3>9. Load(g) \in Nat /\ Load(g) <= Cardinality(Replayed)
      <4>1. CASE g = NewGroup(x)
        <5>1. Load(g) = 0
          BY <4>1 DEF Load, NewGroup
        <5> QED BY <3>7, <5>1
      <4>2. CASE n = Len(groups) /\ g = groups[n]
        <5>1. n \in DOMAIN groups
          BY <1>1, <3>2, <4>2 DEF PlaceTypes
        <5> QED BY <3>6, <4>2, <5>1, LoadType
      <4> QED BY <3>2, <4>1, <4>2
    <3>10. ASSUME NEW i \in DOMAIN groups' PROVE Load(groups'[i]) <= Cardinality(Replayed')
      <4>1. CASE i = n
        BY <3>2, <3>7, <3>8, <3>9, <4>1
      <4>2. CASE i # n
        <5>1. i \in DOMAIN groups /\ groups'[i] = groups[i]
          BY <3>2, <4>2
        <5>2. Load(groups[i]) \in Nat
          BY <1>1, <5>1, LoadType DEF PlaceTypes
        <5> QED BY <3>6, <3>7, <3>8, <5>1, <5>2
      <4> QED BY <4>1, <4>2
    <3> QED BY <1>3, <3>7, <3>10
  <2> QED BY <1>3, <1>10, <2>3, <2>4
<1>14. CASE RunCall
  <2>1. CASE Fault
    BY <1>10, <2>1
  <2>2. CASE /\ IF Len(run.calls) = 1
                THEN pc' = "replay" /\ at' = at + 1 /\ run' = Idle
                ELSE UNCHANGED <<pc, at>> /\ run' = [run EXCEPT !.calls = Tail(@)]
             /\ UNCHANGED <<script, item, status, chainVars, historyVars>>
    <3>1. Busy /\ Op' = Op /\ groups' = groups /\ at' \in {at, at + 1}
      BY <1>7, <1>14, <2>2 DEF RunCall, Busy, chainVars
    <3>2. at <= Len(Op.commands) /\ Command \in Runnable
      BY <1>14 DEF RunCall, Places
    <3> QED BY <1>4, <1>6, <3>1, <3>2
  <2> QED BY <1>14, <2>1, <2>2 DEF RunCall
<1>15. CASE End \/ FlushChunk \/ ChainSlot \/ FlushSync
  <2>1. \/ Refuse \/ Fault \/ pc' = "ended"
        \/ Busy /\ UNCHANGED <<script, item, at, groups>>
    BY <1>15 DEF End, FlushChunk, ChainSlot, FlushSync, Succeed, Busy, placeVars
  <2> QED BY <1>4, <1>5, <1>7, <1>10, <2>1 DEF Busy
<1>16. CASE UNCHANGED vars
  <2>1. UNCHANGED <<script, item, pc, at, groups>>
    BY <1>16 DEF vars, placeVars, chainVars
  <2> QED BY <1>4, <1>5, <1>7, <2>1 DEF Busy
<1> QED BY <1>8, <1>9, <1>11, <1>12, <1>13, <1>14, <1>15, <1>16 DEF Next

-----------------------------------------------------------------------------
(***************************************************************************)
(* Visible                                                                 *)
(***************************************************************************)

\* What a command writes is a buffer.
LEMMA WrittenType ==
  ASSUME TypeOK, Op.kind = "execute", NEW i \in 1 .. Len(Op.commands), Writes(Op.commands[i])
  PROVE  Op.commands[i].to \in Buffers
<1>1. IsCommand(Op.commands[i])
  BY OpType
<1> QED BY <1>1 DEF IsCommand, Writes

\* When every buffer that is seen or pending stays so, and so is what the
\* command that ends wrote, then all that was written is.
LEMMA SeenStep ==
  ASSUME TypeOK, Places, WritesSeen, Busy, Op' = Op,
         \A b \in Buffers : Seen(b) => Seen(b)',
         \/ at' = at
         \/ /\ at' = at + 1 /\ at <= Len(Op.commands)
            /\ \A b \in Buffers : Writes(Command) /\ b = Command.to => Seen(b)'
  PROVE  WritesSeen'
<1>1. Op.kind = "execute" /\ at \in 1 .. Len(Op.commands) + 1
  BY DEF Places
<1>2. Len(Op.commands) \in Nat
  BY <1>1, OpType
<1>3. ASSUME NEW i \in 1 .. at' - 1, Writes(Op.commands[i]), NEW t, t = Op.commands[i].to PROVE Seen(t)'
  <2>1. i \in 1 .. Len(Op.commands)
    BY <1>1, <1>2
  <2>2. t \in Buffers
    BY <1>1, <1>3, <2>1, WrittenType
  <2>3. CASE i \in 1 .. at - 1
    BY <1>3, <2>2, <2>3 DEF WritesSeen
  <2>4. CASE at' = at + 1 /\ i = at
    BY <1>3, <2>2, <2>4 DEF Command
  <2> QED BY <1>1, <1>2, <2>3, <2>4
<1>4. \A i \in 1 .. at' - 1 : Writes(Op.commands[i]) => Seen(Op.commands[i].to)'
  <2> SUFFICES ASSUME NEW i \in 1 .. at' - 1, Writes(Op.commands[i])
               PROVE  Seen(Op.commands[i].to)'
    OBVIOUS
  <2>1. \A t : t = Op.commands[i].to => Seen(t)'
    BY <1>3
  <2>2. Op.commands[i].to' = Op.commands[i].to
    OBVIOUS
  <2> QED BY <2>1, <2>2 DEF Seen
<1> QED BY <1>4 DEF WritesSeen, Writes

\* Nothing is pending differently while the chain and the place in it stay.
LEMMA PendingSame ==
  ASSUME groups' = groups, Unsynced' = Unsynced, pc # "run", pc' # "run"
  PROVE  Pending' = Pending
BY DEF Pending

\* A submitted call changes only a buffer that is pending.
LEMMA SubmitSeen ==
  ASSUME DataTypes, NEW s \in Slot, NEW f,
         dev' = Submit(s, [dev |-> dev, config |-> f]).dev,
         \A b \in Buffers : b \in Pending => b \in Pending',
         s.do = "execute" => s.cmd.to \in Pending,
         host' = host
  PROVE  \A b \in Buffers : Seen(b) => Seen(b)'
<1>1. \A b \in Buffers : b # s.cmd.to => dev'[b] = dev[b]
  BY SubmitType DEF DataTypes
<1>2. s.do # "execute" => dev' = dev
  BY SubmitType DEF DataTypes
<1> QED BY <1>1, <1>2 DEF Seen

\* A dispatch that has its context: it joins a group that syncs its bindings,
\* or its calls, which end with a sync, are about to be made.
LEMMA ProceedVisible ==
  ASSUME TypeOK, PlaceTypes, DataTypes, Places, Visible, Dispatching, Command \in Runnable,
         NEW x \in Contexts, Proceed(Command, x), UNCHANGED deviceVars, cmd_chain' = cmd_chain
  PROVE  Visible'
<1>1. Replaying /\ Busy /\ pc = "replay" /\ Command.do = "dispatch"
  BY DEF Dispatching, Replaying, Busy
<1>2. host' = host /\ dev' = dev
  BY DEF deviceVars
<1>3. SlotsSynced /\ WritesSeen
  BY DEF Visible
<1>4. CASE Fault \/ Refuse
  <2>1. pc' = "ended" /\ groups' = <<>>
    BY <1>4 DEF Fault, Refuse, Abort
  <2> QED BY <2>1 DEF Visible, SlotsSynced, CallsSynced, WritesSeen, Busy
<1>5. CASE Accumulate(Command, x)
  <2>1. PICK n \in Nat \ {0}, g \in Group :
          /\ g.queue = x
          /\ \/ n = Len(groups) + 1 /\ g = NewGroup(x)
             \/ n = Len(groups) /\ g = groups[n]
          /\ groups' \in Seq(Group) /\ Len(groups') = n /\ groups'[n] = Grown(g, Command)
          /\ \A i \in 1 .. n - 1 : i \in DOMAIN groups /\ groups'[i] = groups[i]
    BY <1>5, AccumulateGroups DEF PlaceTypes
  <2>2. Op' = Op /\ at' = at + 1 /\ pc' = pc
    BY <1>5 DEF Accumulate, NextCommand, Op
  <2>3. Range(groups'[n].bindings) = Range(g.bindings) \cup Bindings(Command) /\ n \in DOMAIN groups'
    BY <2>1, GrownType
  <2>4. groups \in Seq(Group) /\ (n = Len(groups) => n \in DOMAIN groups)
    BY <2>1 DEF PlaceTypes
  <2>5. SlotsSynced'
    <3>1. ASSUME NEW j \in DOMAIN groups'[n].slots
          PROVE  groups'[n].slots[j].cmd.to \in Range(groups'[n].bindings)
      <4>1. CASE groups'[n].slots[j].cmd = Command
        BY <2>3, <4>1 DEF Bindings
      <4>2. CASE \E k \in DOMAIN g.slots : groups'[n].slots[j] = g.slots[k]
        <5>1. PICK k \in DOMAIN g.slots : groups'[n].slots[j] = g.slots[k]
          BY <4>2
        <5>2. g # NewGroup(x)
          BY <5>1 DEF NewGroup
        <5>3. g.slots[k].cmd.to \in Range(g.bindings)
          BY <1>3, <2>1, <2>4, <5>1, <5>2 DEF SlotsSynced
        <5> QED BY <2>3, <5>1, <5>3
      <4> QED BY <2>1, <3>1, <4>1, <4>2, GrownType
    <3>2. ASSUME NEW i \in DOMAIN groups', i # n
          PROVE  \A j \in DOMAIN groups'[i].slots : groups'[i].slots[j].cmd.to \in Range(groups'[i].bindings)
      <4>1. i \in DOMAIN groups /\ groups'[i] = groups[i]
        BY <2>1, <3>2
      <4> QED BY <1>3, <4>1 DEF SlotsSynced
    <3> QED BY <3>1, <3>2 DEF SlotsSynced
  <2>6. Unsynced = 1 /\ Unsynced' = 1
    BY <1>1, <2>2 DEF Unsynced
  <2>7. \A b \in Pending : b \in Pending'
    <3> SUFFICES ASSUME NEW b \in Pending PROVE b \in Pending'
      OBVIOUS
    <3>1. PICK i \in DOMAIN groups : b \in Range(groups[i].bindings)
      BY <1>1 DEF Pending
    <3>2. i \in DOMAIN groups' /\ i >= 1 /\ b \in Range(groups'[i].bindings)
      <4>1. CASE i = n
        BY <2>1, <2>3, <2>4, <3>1, <4>1
      <4>2. CASE i # n
        BY <2>1, <2>4, <3>1, <4>2
      <4> QED BY <4>1, <4>2
    <3> QED BY <2>6, <3>2 DEF Pending
  <2>8. Command.to \in Pending'
    <3>1. Command.to \in Range(groups'[n].bindings) /\ n >= 1
      BY <2>1, <2>3 DEF Bindings
    <3> QED BY <2>3, <2>6, <3>1 DEF Pending
  <2>9. at <= Len(Op.commands)
    BY <1>1 DEF Replaying
  <2>10. \A b \in Buffers : Seen(b) => Seen(b)'
    BY <1>2, <2>7 DEF Seen
  <2>11. \A b \in Buffers : Writes(Command) /\ b = Command.to => Seen(b)'
    BY <2>8 DEF Seen
  <2>12. WritesSeen'
    BY <1>1, <1>3, <2>2, <2>9, <2>10, <2>11, SeenStep
  <2> QED BY <1>1, <2>2, <2>5, <2>12 DEF Visible, CallsSynced
<1>6. ASSUME ~cmd_chain, groups' = groups PROVE SlotsSynced' /\ groups = <<>>
  BY <1>3, <1>6 DEF SlotsSynced, Places
<1>7. CASE ~cmd_chain /\ Calls(Command) = <<>> /\ NextCommand /\ UNCHANGED <<chainVars, deviceVars, historyVars>>
  <2>1. groups' = groups /\ Op' = Op /\ at' = at + 1 /\ pc' = pc
    BY <1>7 DEF chainVars, NextCommand, Op
  <2>2. ~Writes(Command)
    <3>1. ~(KernelRuns > 0)
      BY <1>7, CallsType
    <3> QED BY <1>1, <3>1 DEF Writes
  <2>3. Pending' = Pending
    BY <1>1, <2>1, PendingSame DEF Unsynced
  <2>4. at <= Len(Op.commands)
    BY <1>1 DEF Replaying
  <2>5. WritesSeen'
    BY <1>1, <1>2, <1>3, <2>1, <2>2, <2>3, <2>4, SeenStep DEF Seen
  <2> QED BY <1>1, <1>6, <1>7, <2>1, <2>5 DEF Visible, CallsSynced
<1>8. CASE /\ ~cmd_chain /\ Calls(Command) # <<>>
           /\ pc' = "run" /\ run' = [context |-> x, calls |-> Calls(Command)]
           /\ UNCHANGED <<script, item, at, status>>
           /\ UNCHANGED <<chainVars, deviceVars, historyVars>>
  <2>1. groups' = groups /\ Op' = Op /\ at' = at
    BY <1>8 DEF chainVars, Op
  <2>2. Pending = {}
    BY <1>1, <1>6, <1>8, <2>1 DEF Pending
  <2>3. WritesSeen'
    BY <1>1, <1>2, <1>3, <2>1, <2>2, SeenStep DEF Seen
  <2>4. run'.calls = Calls(Command)
    BY <1>8
  <2>5. CallsSynced'
    BY <2>4, CallsType, ConstantsAssumption DEF CallsSynced
  <2> QED BY <1>6, <1>8, <2>1, <2>3, <2>5 DEF Visible
<1> QED BY <1>4, <1>5, <1>7, <1>8 DEF Proceed

\* What the device runs of the group being flushed writes a pending buffer, and
\* the sync of the group shows all its bindings.
LEMMA FlushPending ==
  ASSUME PlaceTypes, Places, SlotsSynced, pc \in {"flush", "chain"}
  PROVE  /\ Range(Flushing.bindings) \subseteq Pending
         /\ pc = "chain" => Flushing.slots[flushing.slot + 1].cmd.to \in Pending
<1>1. flushing.group \in DOMAIN groups /\ flushing.group \in Nat
  BY ChainAt DEF PlaceTypes
<1>2. Range(Flushing.bindings) \subseteq Pending
  BY <1>1 DEF Flushing, Pending, Unsynced
<1>3. ASSUME pc = "chain" PROVE Flushing.slots[flushing.slot + 1].cmd.to \in Pending
  <2>1. flushing.slot + 1 \in DOMAIN Flushing.slots
    BY <1>3, ChainAt
  <2> QED BY <1>1, <1>2, <2>1 DEF SlotsSynced, Flushing
<1> QED BY <1>2, <1>3

\* Every step keeps track of what the host has yet to see.
LEMMA VisibleStep ==
  ASSUME TypeOK, Shapes, Places, Visible, [Next]_vars
  PROVE  Visible'
<1>1. PlaceTypes /\ DataTypes /\ ContextTypes /\ cmd_chain \in BOOLEAN /\ cmd_chain' = cmd_chain
  BY TypesSplit DEF Next, vars
<1>2. SlotsSynced /\ CallsSynced /\ WritesSeen
  BY DEF Visible
<1>3. groups' \in {groups, <<>>} => SlotsSynced'
  BY <1>2 DEF SlotsSynced
<1>4. ASSUME ~Busy', groups' \in {groups, <<>>} PROVE Visible'
  BY <1>3, <1>4 DEF Visible, CallsSynced, WritesSeen, Busy
<1>5. Refuse \/ Fault => Visible'
  BY <1>4 DEF Refuse, Fault, Abort, Busy
<1>6. script' = script /\ item' = item => Op' = Op
  BY DEF Op
<1>7. CASE QueueExecute
  <2>1. groups' = groups /\ pc' # "run" /\ at' = 1
    BY <1>7 DEF QueueExecute, chainVars
  <2> QED BY <1>3, <2>1 DEF Visible, CallsSynced, WritesSeen
<1>8. CASE QueueCopy \/ QueueBarrier \/ QueueDealloca \/ NextOperation
  BY <1>4, <1>8 DEF QueueCopy, QueueBarrier, QueueDealloca, NextOperation, Succeed, Busy, chainVars
<1>9. CASE Barrier \/ Write \/ Copy
  <2>1. Replaying /\ (Refuse \/ Fault \/ (NextCommand /\ UNCHANGED <<chainVars, historyVars>>))
    BY <1>9 DEF Barrier, Write, Copy
  <2>2. ASSUME NextCommand, UNCHANGED <<chainVars, historyVars>>, ~Fault, ~Refuse PROVE Visible'
    <3>1. /\ Busy /\ pc = "replay" /\ pc' = pc /\ groups' = groups
          /\ Op' = Op /\ at' = at + 1 /\ at <= Len(Op.commands)
      BY <1>6, <2>1, <2>2 DEF Replaying, NextCommand, chainVars, Busy
    <3>2. Pending' = Pending
      BY <3>1, PendingSame DEF Unsynced
    <3>3. IsCommand(Command)
      BY <2>1, AtCommand
    <3>4. /\ \A b \in Buffers : Seen(b) => Seen(b)'
          /\ \A b \in Buffers : Writes(Command) /\ b = Command.to => Seen(b)'
      <4>1. CASE Barrier
        <5>1. UNCHANGED <<host, dev>> /\ ~Writes(Command)
          BY <4>1 DEF Barrier, Writes, deviceVars
        <5> QED BY <3>2, <5>1 DEF Seen
      <4>2. CASE Write
        <5>1. /\ host' = [host EXCEPT ![Command.to] = Command.value]
              /\ dev' = [dev EXCEPT ![Command.to] = Command.value]
          BY <2>2, <4>2 DEF Write
        <5> QED BY <1>1, <3>2, <5>1 DEF Seen, DataTypes
      <4>3. CASE Copy
        <5> DEFINE both == Invalidated({Command.from, Command.to})
                   copied == [both EXCEPT ![Command.to] = both[Command.from]]
        <5>1. host' = copied /\ dev' = [dev EXCEPT ![Command.to] = copied[Command.from]]
          BY <2>2, <4>3 DEF Copy
        <5>2. Command.from \in Buffers /\ Command.to \in Buffers
          BY <3>3, <4>3 DEF Copy, IsCommand
        <5>3. DOMAIN both = Buffers /\ \A b \in Buffers : both[b] = IF b \in {Command.from, Command.to} THEN dev[b] ELSE host[b]
          BY InvalidatedType
        <5> HIDE DEF both
        <5>4. copied[Command.from] = dev[Command.from]
          BY <5>2, <5>3
        <5>5. host'[Command.to] = dev[Command.from] /\ dev'[Command.to] = dev[Command.from]
          BY <1>1, <5>1, <5>2, <5>3, <5>4 DEF DataTypes
        <5>6. \A b \in Buffers : b # Command.to =>
                dev'[b] = dev[b] /\ (host'[b] = dev[b] \/ host'[b] = host[b])
          BY <1>1, <5>1, <5>2, <5>3 DEF DataTypes
        <5> QED BY <3>2, <5>5, <5>6 DEF Seen
      <4> QED BY <1>9, <4>1, <4>2, <4>3
    <3>5. WritesSeen'
      BY <1>2, <3>1, <3>4, SeenStep
    <3> QED BY <1>3, <3>1, <3>5 DEF Visible, CallsSynced
  <2> QED BY <1>5, <2>1, <2>2
<1>10. CASE DispatchFails
  BY <1>5, <1>10 DEF DispatchFails
<1>11. CASE DispatchFresh \/ DispatchCached \/ DispatchKept
  <2>1. Dispatching /\ Command \in Runnable
    BY <1>11, DispatchRunnable DEF DispatchFresh, DispatchCached, DispatchKept
  <2>2. exe_context[Command.exe] \in Contexts \cup {NoContext}
    BY <1>1, <2>1, RunnableType DEF ContextTypes
  <2>3. Refuse \/ \E x \in Contexts : Proceed(Command, x)
    BY <1>11, <2>2 DEF DispatchFresh, DispatchCached, DispatchKept
  <2>4. ASSUME NEW x \in Contexts, Proceed(Command, x) PROVE Visible'
    <3>1. UNCHANGED deviceVars
      BY <1>1, <2>1, <2>4, ProceedPlace
    <3> QED BY <1>1, <2>1, <2>4, <3>1, ProceedVisible
  <2> QED BY <1>5, <2>3, <2>4
<1>12. CASE RunCall
  <2> DEFINE s == Head(run.calls)
             d == Submit(s, [dev |-> dev, config |-> config[run.context]])
  <2>1. pc = "run" /\ Busy
    BY <1>12 DEF RunCall, Busy
  <2>2. /\ s \in Slot /\ s.cmd = Command /\ s = run.calls[1] /\ 1 \in DOMAIN run.calls
        /\ run.calls \in Seq(Slot) /\ Len(run.calls) \in Nat \ {0} /\ Command \in Runnable
    BY <1>1, <2>1, RunAt
  <2>3. groups = <<>> /\ at <= Len(Op.commands)
    BY <2>1 DEF Places
  <2>4. Pending = IF KernelRuns > 0 THEN Bindings(Command) ELSE {}
    BY <2>1, <2>3 DEF Pending
  <2>5. CASE Fault
    BY <1>5, <2>5
  <2>6. CASE /\ dev' = d.dev
             /\ host' = IF s.do = "sync" THEN Invalidated(Bindings(s.cmd)) ELSE host
             /\ IF Len(run.calls) = 1
                THEN pc' = "replay" /\ at' = at + 1 /\ run' = Idle
                ELSE UNCHANGED <<pc, at>> /\ run' = [run EXCEPT !.calls = Tail(@)]
             /\ UNCHANGED <<script, item, status, chainVars, historyVars>>
    <3>1. Op' = Op /\ groups' = groups
      BY <1>6, <2>6 DEF chainVars
    <3>2. s.do = "execute" => s.cmd.to \in Pending
      <4>1. KernelRuns \in Nat
        BY ConstantsAssumption
      <4> QED BY <1>2, <2>1, <2>2, <2>4, <4>1 DEF CallsSynced, Bindings
    <3>3. CASE Len(run.calls) # 1
      <4>1. pc' = pc /\ at' = at /\ run'.calls = Tail(run.calls) /\ Command' = Command
        BY <1>1, <2>6, <3>1, <3>3 DEF PlaceTypes, Command
      <4>2. Pending' = Pending
        BY <2>1, <3>1, <4>1 DEF Pending, Unsynced
      <4>3. \A b \in Buffers : Seen(b) => Seen(b)'
        <5>1. CASE s.do = "sync"
          <6>1. dev' = dev
            BY <1>1, <2>2, <2>6, <5>1, SubmitType DEF DataTypes
          <6>2. \A b \in Buffers : host'[b] \in {host[b], dev[b]}
            BY <2>6, <5>1, InvalidatedType
          <6> QED BY <4>2, <6>1, <6>2 DEF Seen
        <5>2. CASE s.do # "sync"
          <6>1. host' = host
            BY <2>6, <5>2
          <6> QED BY <1>1, <2>2, <2>6, <3>2, <4>2, <6>1, SubmitSeen
        <5> QED BY <5>1, <5>2
      <4>4. WritesSeen'
        BY <1>2, <2>1, <3>1, <4>1, <4>3, SeenStep
      <4>5. CallsSynced'
        <5> DEFINE t == Tail(run.calls)
        <5>1. /\ t \in Seq(Slot) /\ Len(t) = Len(run.calls) - 1
              /\ \A i \in 1 .. Len(t) : t[i] = run.calls[i + 1]
          BY <2>2, HeadTailProperties
        <5> HIDE DEF t
        <5>2. Len(t) \in Nat \ {0} /\ DOMAIN t = 1 .. Len(t) /\ Len(t) + 1 = Len(run.calls)
          <6>1. Len(t) \in Nat /\ DOMAIN t = 1 .. Len(t)
            BY ONLY <5>1
          <6>2. Len(run.calls) - 1 # 0 /\ (Len(run.calls) - 1) + 1 = Len(run.calls)
            BY ONLY <2>2, <3>3
          <6>3. Len(t) # 0 /\ Len(t) + 1 = Len(run.calls)
            BY ONLY <5>1, <6>2, Zenon
          <6> QED BY ONLY <6>1, <6>3, Zenon
        <5>3. t[Len(t)] = run.calls[Len(run.calls)]
          <6>1. Len(t) \in 1 .. Len(t)
            BY ONLY <5>2
          <6>2. t[Len(t)] = run.calls[Len(t) + 1]
            BY ONLY <5>1, <6>1, Zenon
          <6> QED BY ONLY <5>2, <6>2, Zenon
        <5>4. \A i \in DOMAIN t : i + 1 \in DOMAIN run.calls /\ t[i] = run.calls[i + 1]
          BY <2>2, <5>1, <5>2
        <5>5. run'.calls = t
          BY <4>1 DEF t
        <5> QED BY <1>2, <2>1, <5>3, <5>4, <5>5 DEF CallsSynced
      <4> QED BY <1>3, <3>1, <4>4, <4>5 DEF Visible
    <3>4. CASE Len(run.calls) = 1
      <4>1. pc' = "replay" /\ at' = at + 1
        BY <2>6, <3>4
      <4>2. Pending' = {}
        BY <2>3, <3>1, <4>1 DEF Pending
      <4>3. /\ \A b \in Buffers : Seen(b) => Seen(b)'
            /\ \A b \in Buffers : Writes(Command) /\ b = Command.to => Seen(b)'
        <5>1. CASE KernelRuns > 0
          <6>1. s.do = "sync"
            BY <1>2, <2>1, <2>2, <3>4, <5>1 DEF CallsSynced
          <6>2. dev' = dev
            BY <1>1, <2>2, <2>6, <6>1, SubmitType DEF DataTypes
          <6>3. \A b \in Buffers : host'[b] = IF b \in Bindings(Command) THEN dev[b] ELSE host[b]
            BY <2>2, <2>6, <6>1, InvalidatedType
          <6> QED BY <2>4, <5>1, <6>2, <6>3 DEF Seen, Bindings
        <5>2. CASE ~(KernelRuns > 0)
          <6>1. s.do = "reconfigure"
            BY <1>2, <2>1, <2>2, <5>2 DEF CallsSynced
          <6>2. dev' = dev /\ host' = host
            BY <1>1, <2>2, <2>6, <6>1, SubmitType DEF DataTypes
          <6>3. ~Writes(Command)
            BY <2>2, <5>2 DEF Writes, Runnable
          <6> QED BY <2>4, <5>2, <6>2, <6>3 DEF Seen
        <5> QED BY <5>1, <5>2
      <4>4. WritesSeen'
        BY <1>2, <2>1, <2>3, <3>1, <4>1, <4>3, SeenStep
      <4> QED BY <1>3, <3>1, <4>1, <4>4 DEF Visible, CallsSynced
    <3> QED BY <3>3, <3>4
  <2> QED BY <1>12, <2>5, <2>6 DEF RunCall
<1>13. CASE End
  <2>1. pc = "replay" /\ Busy /\ UNCHANGED <<host, dev>>
    BY <1>13 DEF End, Busy, deviceVars
  <2>2. CASE Fault
    BY <1>5, <2>2
  <2>3. CASE Succeed /\ UNCHANGED <<chainVars, historyVars>>
    BY <1>4, <2>3 DEF Succeed, Busy, chainVars
  <2>4. CASE /\ pc' = "flush" /\ flushing' = FirstOf(1)
             /\ UNCHANGED <<script, item, at, status, run, groups, historyVars>>
    <3>1. Pending' = Pending
      BY <2>1, <2>4, PendingSame DEF Unsynced, FirstOf
    <3>2. WritesSeen'
      BY <1>2, <1>6, <2>1, <2>4, <3>1, SeenStep DEF Seen
    <3> QED BY <1>3, <2>4, <3>2 DEF Visible, CallsSynced
  <2> QED BY <1>13, <2>2, <2>3, <2>4 DEF End
<1>14. CASE FlushChunk
  <2>1. pc = "flush" /\ Busy /\ UNCHANGED <<host, dev>>
    BY <1>14 DEF FlushChunk, Busy, deviceVars
  <2>2. CASE Refuse \/ Fault
    BY <1>5, <2>2
  <2>3. CASE /\ pc' = "chain" /\ flushing' = [flushing EXCEPT !.slot = flushing.begin]
             /\ UNCHANGED <<script, item, at, status, run, groups, max_slots, historyVars>>
    <3>1. flushing'.group = flushing.group
      BY <1>1, <2>3 DEF PlaceTypes
    <3>2. Pending' = Pending
      BY <2>1, <2>3, <3>1, PendingSame DEF Unsynced
    <3>3. WritesSeen'
      BY <1>2, <1>6, <2>1, <2>3, <3>2, SeenStep DEF Seen
    <3> QED BY <1>3, <2>3, <3>3 DEF Visible, CallsSynced
  <2> QED BY <1>14, <2>2, <2>3 DEF FlushChunk
<1>15. CASE ChainSlot
  <2> DEFINE s == Flushing.slots[flushing.slot + 1]
             d == Submit(s, [dev |-> dev, config |-> config[Flushing.queue]])
  <2>1. pc = "chain" /\ Busy /\ host' = host
    BY <1>15 DEF ChainSlot, Busy
  <2>2. CASE Fault
    BY <1>5, <2>2
  <2>3. CASE /\ dev' = d.dev
             /\ \/ flushing' = [flushing EXCEPT !.slot = flushing.slot + 1] /\ UNCHANGED pc
                \/ flushing' = [flushing EXCEPT !.begin = @ + max_slots] /\ pc' = "flush"
             /\ UNCHANGED <<script, item, at, status, run, groups, max_slots, historyVars>>
    <3>1. flushing'.group = flushing.group /\ pc' \in {"flush", "chain"}
      BY <1>1, <2>1, <2>3 DEF PlaceTypes
    <3>2. Pending' = Pending
      BY <2>1, <2>3, <3>1, PendingSame DEF Unsynced
    <3>3. s \in Slot /\ s.cmd.to \in Pending
      BY <1>1, <1>2, <2>1, ChainAt, FlushPending
    <3>4. \A b \in Buffers : Seen(b) => Seen(b)'
      BY <1>1, <2>1, <2>3, <3>2, <3>3, SubmitSeen
    <3>5. WritesSeen'
      BY <1>2, <1>6, <2>1, <2>3, <3>4, SeenStep
    <3> QED BY <1>3, <2>3, <3>1, <3>5 DEF Visible, CallsSynced
  <2> QED BY <1>15, <2>2, <2>3 DEF ChainSlot
<1>16. CASE FlushSync
  <2>1. pc = "flush" /\ Busy /\ dev' = dev
    BY <1>16 DEF FlushSync, Busy
  <2>2. CASE Fault
    BY <1>5, <2>2
  <2>3. CASE Succeed /\ groups' = <<>>
    BY <1>4, <2>3 DEF Succeed, Busy
  <2>4. CASE /\ host' = Invalidated({Flushing.bindings[i] : i \in DOMAIN Flushing.bindings})
             /\ flushing' = FirstOf(flushing.group + 1)
             /\ UNCHANGED <<placeVars, groups>> /\ UNCHANGED <<max_slots, historyVars>>
    <3>1. UNCHANGED <<script, item, pc, at, groups>> /\ Op' = Op
      BY <1>6, <2>4 DEF placeVars
    <3>2. \A b \in Buffers : host'[b] = IF b \in Range(Flushing.bindings) THEN dev[b] ELSE host[b]
      BY <2>4, InvalidatedType DEF Range
    <3>3. ASSUME NEW b \in Pending, b \notin Range(Flushing.bindings) PROVE b \in Pending'
      <4>1. PICK i \in DOMAIN groups : i >= flushing.group /\ b \in Range(groups[i].bindings)
        BY <2>1, <3>3 DEF Pending, Unsynced
      <4>2. i # flushing.group
        BY <3>3, <4>1 DEF Flushing
      <4>3. i >= flushing'.group
        BY <1>1, <2>4, <4>1, <4>2 DEF FirstOf, PlaceTypes
      <4> QED BY <2>1, <3>1, <4>1, <4>3 DEF Pending, Unsynced
    <3>4. \A b \in Buffers : Seen(b) => Seen(b)'
      BY <2>1, <3>2, <3>3 DEF Seen
    <3>5. WritesSeen'
      BY <1>2, <2>1, <3>1, <3>4, SeenStep
    <3> QED BY <1>3, <2>1, <3>1, <3>5 DEF Visible, CallsSynced
  <2> QED BY <1>16, <2>2, <2>3, <2>4 DEF FlushSync
<1>17. CASE UNCHANGED vars
  <2>1. UNCHANGED <<script, item, pc, at, run, groups, flushing, host, dev>>
    BY <1>17 DEF vars, placeVars, chainVars, deviceVars
  <2>2. Op' = Op /\ Command' = Command /\ Pending' = Pending
    BY <2>1 DEF Op, Command, Pending, Unsynced
  <2>3. Busy => WritesSeen'
    BY <1>2, <2>1, <2>2, SeenStep DEF Seen
  <2>4. WritesSeen' /\ CallsSynced'
    BY <1>2, <2>1, <2>3 DEF WritesSeen, Busy, CallsSynced
  <2> QED BY <1>3, <2>1, <2>4 DEF Visible
<1> QED BY <1>7, <1>8, <1>9, <1>10, <1>11, <1>12, <1>13, <1>14, <1>15, <1>16, <1>17 DEF Next

-----------------------------------------------------------------------------
(***************************************************************************)
(* How an operation ends                                                   *)
(***************************************************************************)

\* The replay stops at a command the driver does not support.
LEMMA UnsupportedReal ==
  ASSUME TypeOK, Places, Replaying, Op' = Op, NEW c, c = Command, Unsupported(c)'
  PROVE  OnlyRealErrors'
<1>1. Op.kind = "execute" /\ at \in DOMAIN Op.commands
  BY AtCommand
<1>2. PICK i \in DOMAIN Op.commands : c = Op.commands[i]
  BY <1>1 DEF Command
<1>3. (\E j \in DOMAIN Op.commands : Unsupported(Op.commands[j]))'
  BY <1>2 DEF Unsupported, Invalid, Bindings, Entry
<1> QED BY <1>1, <1>3 DEF OnlyRealErrors

\* An operation that succeeds, and one that a native call fails in.
LEMMA SuccessReal ==
  ASSUME pc' # "ended" \/ status' = "ok" \/ blamed'
  PROVE  OnlyRealErrors'
BY DEF OnlyRealErrors

\* A refused chunk: the list is over the capacity of a command.
LEMMA ChunkReal ==
  ASSUME TypeOK, PlaceTypes, Places, Fits, FlushChunk, Refuse, ~Fault, cmd_chain' = cmd_chain,
         cmd_chain \in BOOLEAN
  PROVE  OnlyRealErrors'
<1> DEFINE g == Flushing
           n == ChunkEnd(flushing.begin) - flushing.begin
<1>1. pc = "flush" /\ flushing.begin < Len(g.slots) /\ flushing.begin \in Nat
  BY DEF FlushChunk, PlaceTypes
<1>2. /\ g \in Group /\ flushing.group \in DOMAIN groups
      /\ Len(g.slots) \in Nat /\ Len(g.bindings) \in Nat /\ g.sequences \in Nat
  <2>1. g \in Group /\ flushing.group \in DOMAIN groups
    BY <1>1, ChainAt
  <2>2. g.slots \in Seq(Slot) /\ g.bindings \in Seq(Buffers) /\ g.sequences \in Nat
    BY <2>1 DEF Group
  <2> QED BY <2>1, <2>2
<1>3. n \in Nat /\ n <= Len(g.slots) /\ n <= MaxSlots
  BY <1>1, <1>2, ChunkBounds
<1>4. ~(8 * n <= ChainBytes /\ n + g.sequences + Len(g.bindings) <= ArgCapacity)
  <2>1. pc' = "ended"
    BY DEF Refuse, Abort
  <2> QED BY <2>1 DEF FlushChunk
<1> HIDE DEF n, g
<1>5. 8 * n <= ChainBytes
  BY <1>3, SomeSlots, ConstantsAssumption
<1>6. Load(g) > ArgCapacity
  BY <1>2, <1>3, <1>4, <1>5, ConstantsAssumption DEF Load
<1>7. at = Len(Op.commands) + 1 /\ Op.kind = "execute" /\ Busy
  BY <1>1 DEF Places, Busy
<1>8. Len(Op.commands) \in Nat
  BY <1>7, OpType
<1>9. cmd_chain
  BY <1>1, <1>2 DEF Places
<1>10. at - 1 = Len(Op.commands)
  BY <1>7, <1>8
<1>11. /\ IsFiniteSet(Units(Op.commands, Len(Op.commands)))
       /\ Load(g) <= Cardinality(Units(Op.commands, Len(Op.commands)))
  BY <1>2, <1>7, <1>9, <1>10 DEF Fits, Flushing, g
<1>12. OverCapacity(Op.commands)
  <2>1. Cardinality(Units(Op.commands, Len(Op.commands))) \in Nat
    BY <1>11, FS_CardinalityType
  <2>2. Load(g) \in Nat
    BY <1>2, LoadType
  <2> QED BY <1>6, <1>9, <1>11, <2>1, <2>2, ConstantsAssumption DEF OverCapacity
<1>13. Op' = Op
  BY DEF Op, Refuse, Abort
<1>14. OverCapacity(Op.commands)'
  BY <1>12, <1>13 DEF OverCapacity
<1> QED BY <1>7, <1>13, <1>14 DEF OnlyRealErrors

\* A dispatch that has its context is refused only for its patch table.
LEMMA ProceedReal ==
  ASSUME TypeOK, PlaceTypes, Places, Dispatching, Command \in Runnable, NEW x \in Contexts,
         Proceed(Command, x), cmd_chain' = cmd_chain
  PROVE  OnlyRealErrors'
<1>1. Replaying /\ pc = "replay" /\ Command.do = "dispatch"
  BY DEF Dispatching, Replaying
<1>2. CASE Fault
  BY <1>2, SuccessReal DEF Fault
<1>3. CASE cmd_chain /\ ~Entry(Command).patched /\ Refuse
  <2>1. Op' = Op
    BY <1>3 DEF Refuse, Abort, Op
  <2>2. ASSUME NEW c, c = Command PROVE Unsupported(c)'
    BY <1>1, <1>3, <2>2 DEF Unsupported, Entry
  <2> QED BY <1>1, <2>1, <2>2, UnsupportedReal
<1>4. CASE NextCommand
  BY <1>1, <1>4, SuccessReal DEF NextCommand
<1>5. CASE pc' = "run"
  BY <1>5, SuccessReal
<1> QED BY <1>2, <1>3, <1>4, <1>5 DEF Proceed, Accumulate

\* Every step that ends an operation with an error has a reason to.
LEMMA ErrorsStep ==
  ASSUME IInv, OnlyRealErrors, [Next]_vars
  PROVE  OnlyRealErrors'
<1>1. /\ TypeOK /\ Shapes /\ Places /\ Images /\ Fits
      /\ PlaceTypes /\ ContextTypes /\ cmd_chain \in BOOLEAN /\ cmd_chain' = cmd_chain
  BY TypesSplit DEF IInv, Next, vars
<1>2. pc \notin {"ended", "done"} => status = "ok"
  BY <1>1 DEF Places
<1>3. Fault => OnlyRealErrors'
  BY SuccessReal DEF Fault
<1>4. CASE QueueExecute
  BY <1>4, SuccessReal DEF QueueExecute
<1>5. CASE QueueCopy
  <2>1. pc = "start" /\ Op.kind = "copy" /\ Op' = Op /\ deallocated' = deallocated
    BY <1>5 DEF QueueCopy, Starting, Op
  <2>2. CASE {Op.from, Op.to} \cap deallocated # {}
    BY <2>1, <2>2 DEF OnlyRealErrors
  <2>3. CASE status' = status
    BY <1>2, <2>1, <2>3, SuccessReal
  <2>4. CASE blamed'
    BY <2>4, SuccessReal
  <2> QED BY <1>5, <2>2, <2>3, <2>4 DEF QueueCopy
<1>6. CASE QueueBarrier \/ QueueDealloca
  <2>1. pc = "start" /\ status' = status
    BY <1>6 DEF QueueBarrier, QueueDealloca, Starting, Succeed
  <2> QED BY <1>2, <2>1, SuccessReal
<1>7. CASE NextOperation
  BY <1>7, SuccessReal DEF NextOperation
<1>8. CASE Barrier
  <2>1. Replaying /\ pc = "replay" /\ Command.do = "barrier"
    BY <1>8 DEF Barrier, Replaying
  <2>2. CASE Command.host /\ Refuse
    <3>1. Op' = Op
      BY <2>2 DEF Refuse, Abort, Op
    <3>2. ASSUME NEW c, c = Command PROVE Unsupported(c)'
      BY <2>1, <2>2, <3>2 DEF Unsupported
    <3> QED BY <1>1, <2>1, <3>1, <3>2, UnsupportedReal
  <2>3. CASE NextCommand
    BY <2>1, <2>3, SuccessReal DEF NextCommand
  <2> QED BY <1>8, <2>2, <2>3 DEF Barrier
<1>9. CASE Write \/ Copy
  <2>1. pc = "replay" /\ (Fault \/ NextCommand)
    BY <1>9 DEF Write, Copy, Replaying
  <2>2. CASE NextCommand
    BY <2>1, <2>2, SuccessReal DEF NextCommand
  <2> QED BY <1>3, <2>1, <2>2
<1>10. CASE DispatchFresh
  <2>1. Dispatching /\ Command \in Runnable /\ \E x \in Contexts : Proceed(Command, x)
    BY <1>1, <1>10, DispatchRunnable DEF DispatchFresh
  <2> QED BY <1>1, <2>1, ProceedReal
<1>11. CASE DispatchCached
  <2>1. Dispatching /\ Command \in Runnable
    BY <1>1, <1>11, DispatchRunnable DEF DispatchCached
  <2>2. PICK x \in Contexts :
          /\ GetOrCreate(Entry(Command), x)
          /\ OpenCu(Command, image'[x]) => Proceed(Command, x)
    BY <1>11 DEF DispatchCached
  <2>3. image'[x] = Key(Entry(Command))
    BY <1>1, <2>1, <2>2, RunnableType, GetOrCreateImages DEF Images
  <2>4. OpenCu(Command, image'[x])
    BY <2>3 DEF OpenCu, Key
  <2> QED BY <1>1, <2>1, <2>2, <2>4, ProceedReal
<1>12. CASE DispatchKept
  <2>1. Dispatching /\ Command \in Runnable /\ Entry(Command).pdi = NoPdi /\ exe_context' = exe_context
    BY <1>1, <1>12, DispatchRunnable DEF DispatchKept, contextVars
  <2>2. exe_context[Command.exe] \in Contexts \cup {NoContext}
    BY <1>1, <2>1, RunnableType DEF ContextTypes
  <2>3. CASE exe_context[Command.exe] = NoContext
    <3>1. Refuse /\ Replaying /\ Command.do = "dispatch"
      BY <1>12, <2>1, <2>3 DEF DispatchKept, Dispatching
    <3>2. Op' = Op
      BY <3>1 DEF Refuse, Abort, Op
    <3>3. ASSUME NEW c, c = Command PROVE Unsupported(c)'
      BY <2>1, <2>3, <3>1, <3>3 DEF Unsupported, Entry
    <3> QED BY <1>1, <3>1, <3>2, <3>3, UnsupportedReal
  <2>4. CASE exe_context[Command.exe] # NoContext
    BY <1>1, <1>12, <2>1, <2>2, <2>4, ProceedReal DEF DispatchKept
  <2> QED BY <2>3, <2>4
<1>13. CASE DispatchFails
  <2>1. CASE Invalid(Command)
    <3>1. Refuse /\ Replaying /\ Command.do = "dispatch" /\ deallocated' = deallocated
      BY <1>13, <2>1 DEF DispatchFails, Dispatching, deviceVars
    <3>2. Op' = Op
      BY <3>1 DEF Refuse, Abort, Op
    <3>3. ASSUME NEW c, c = Command PROVE Unsupported(c)'
      BY <2>1, <3>1, <3>3 DEF Unsupported, Invalid, Bindings
    <3> QED BY <1>1, <3>1, <3>2, <3>3, UnsupportedReal
  <2>2. CASE ~Invalid(Command)
    BY <1>3, <1>13, <2>2 DEF DispatchFails
  <2> QED BY <2>1, <2>2
<1>14. CASE RunCall
  <2>1. pc = "run" /\ (Fault \/ status' = status)
    BY <1>14 DEF RunCall
  <2> QED BY <1>2, <1>3, <2>1, SuccessReal
<1>15. CASE End \/ ChainSlot \/ FlushSync
  <2>1. pc \in {"replay", "flush", "chain"} /\ (Fault \/ status' = status)
    BY <1>15 DEF End, ChainSlot, FlushSync, Succeed, placeVars
  <2> QED BY <1>2, <1>3, <2>1, SuccessReal
<1>16. CASE FlushChunk
  <2>1. CASE Refuse
    BY <1>1, <1>3, <1>16, <2>1, ChunkReal
  <2>2. CASE pc' = "chain"
    BY <2>2, SuccessReal
  <2> QED BY <1>3, <1>16, <2>1, <2>2 DEF FlushChunk
<1>17. CASE UNCHANGED vars
  BY <1>17 DEF vars, placeVars, deviceVars, contextVars, historyVars, OnlyRealErrors, Op,
               Unsupported, Invalid, OverCapacity
<1> QED BY <1>4, <1>5, <1>6, <1>7, <1>8, <1>9, <1>10, <1>11, <1>12, <1>13, <1>14, <1>15,
           <1>16, <1>17 DEF Next

\* When nothing is pending after the last command, the host sees every result.
LEMMA AllSeen ==
  ASSUME TypeOK, Places, WritesSeen, Busy, at = Len(Op.commands) + 1, Op' = Op,
         \A b \in Buffers : Seen(b) => host'[b] = dev'[b]
  PROVE  HostSeesResults'
<1>1. Op.kind = "execute"
  BY DEF Places
<1>2. Len(Op.commands) \in Nat /\ DOMAIN Op.commands = 1 .. Len(Op.commands)
  BY <1>1, OpType
<1>3. ASSUME NEW i \in DOMAIN Op.commands, Writes(Op.commands[i])
      PROVE  host'[Op.commands[i].to] = dev'[Op.commands[i].to]
  <2>1. i \in 1 .. at - 1
    BY <1>2
  <2>2. Seen(Op.commands[i].to) /\ Op.commands[i].to \in Buffers
    BY <1>1, <1>2, <1>3, <2>1, WrittenType DEF WritesSeen
  <2> QED BY <2>2
<1> QED BY <1>3 DEF HostSeesResults, Writes

\* Every step that ends a list with success shows its results to the host.
LEMMA HostStep ==
  ASSUME IInv, HostSeesResults, [Next]_vars
  PROVE  HostSeesResults'
<1>1. /\ TypeOK /\ Shapes /\ Places /\ PlaceTypes /\ DataTypes
      /\ SlotsSynced /\ WritesSeen
  BY TypesSplit DEF IInv, Visible
<1>2. pc' # "ended" \/ status' # "ok" \/ Op'.kind # "execute" => HostSeesResults'
  BY DEF HostSeesResults, Executed
<1>3. Refuse \/ Fault => HostSeesResults'
  BY <1>2 DEF Refuse, Fault, Abort
<1>4. script' = script /\ item' = item => Op' = Op
  BY DEF Op
<1>5. CASE QueueExecute
  BY <1>2, <1>5 DEF QueueExecute
<1>6. CASE QueueCopy \/ QueueBarrier \/ QueueDealloca
  <2>1. Op.kind # "execute" /\ Op' = Op
    BY <1>4, <1>6 DEF QueueCopy, QueueBarrier, QueueDealloca, Starting, Succeed
  <2> QED BY <1>2, <2>1
<1>7. CASE NextOperation
  BY <1>2, <1>7 DEF NextOperation
<1>8. CASE Barrier \/ Write \/ Copy
  <2>1. Refuse \/ Fault \/ pc' = "replay"
    BY <1>8 DEF Barrier, Write, Copy, Replaying, NextCommand
  <2> QED BY <1>2, <1>3, <2>1
<1>9. CASE DispatchFresh \/ DispatchCached \/ DispatchKept
  <2>1. Dispatching /\ (Refuse \/ \E x : Proceed(Command, x))
    BY <1>9 DEF DispatchFresh, DispatchCached, DispatchKept
  <2>2. ASSUME NEW x, Proceed(Command, x) PROVE Refuse \/ Fault \/ pc' \in {"replay", "run"}
    BY <2>1, <2>2 DEF Proceed, Accumulate, NextCommand, Dispatching, Replaying
  <2> QED BY <1>2, <1>3, <2>1, <2>2
<1>10. CASE DispatchFails
  BY <1>3, <1>10 DEF DispatchFails
<1>11. CASE RunCall
  <2>1. Fault \/ pc' \in {"replay", "run"}
    BY <1>11 DEF RunCall
  <2> QED BY <1>2, <1>3, <2>1
<1>12. CASE End
  <2>1. pc = "replay" /\ Busy /\ at > Len(Op.commands) /\ UNCHANGED <<host, dev>>
    BY <1>12 DEF End, Busy, deviceVars
  <2>2. CASE groups = <<>> /\ Succeed
    <3>1. Op' = Op
      BY <1>4, <2>2 DEF Succeed
    <3>2. at = Len(Op.commands) + 1
      BY <1>1, <2>1, OpType DEF Places
    <3>3. Pending = {}
      BY <2>1, <2>2 DEF Pending
    <3> QED BY <1>1, <2>1, <3>1, <3>2, <3>3, AllSeen DEF Seen
  <2>3. CASE Fault \/ pc' = "flush"
    BY <1>2, <1>3, <2>3
  <2> QED BY <1>12, <2>2, <2>3 DEF End
<1>13. CASE FlushChunk \/ ChainSlot
  <2>1. Refuse \/ Fault \/ pc' \in {"flush", "chain"}
    BY <1>13 DEF FlushChunk, ChainSlot
  <2> QED BY <1>2, <1>3, <2>1
<1>14. CASE FlushSync
  <2>1. pc = "flush" /\ Busy /\ dev' = dev
    BY <1>14 DEF FlushSync, Busy
  <2>2. CASE /\ flushing.group = Len(groups) /\ Succeed
             /\ host' = Invalidated({Flushing.bindings[i] : i \in DOMAIN Flushing.bindings})
    <3>1. Op' = Op /\ at = Len(Op.commands) + 1
      BY <1>1, <1>4, <2>1, <2>2 DEF Succeed, Places
    <3>2. \A b \in Buffers : host'[b] = IF b \in Range(Flushing.bindings) THEN dev[b] ELSE host[b]
      BY <2>2, InvalidatedType DEF Range
    <3>3. Pending \subseteq Range(Flushing.bindings)
      <4>1. {j \in DOMAIN groups : j >= Unsynced} = {flushing.group}
        <5>1. flushing.group \in DOMAIN groups /\ DOMAIN groups = 1 .. Len(groups) /\ Len(groups) \in Nat
          BY <1>1, <2>1, ChainAt DEF PlaceTypes
        <5> QED BY <2>1, <2>2, <5>1 DEF Unsynced
      <4> QED BY <2>1, <4>1 DEF Pending, Flushing
    <3> QED BY <1>1, <2>1, <3>1, <3>2, <3>3, AllSeen DEF Seen
  <2>3. CASE Fault
    BY <1>3, <2>3
  <2>4. CASE UNCHANGED <<placeVars, groups>>
    BY <1>2, <2>1, <2>4 DEF placeVars
  <2> QED BY <1>14, <2>2, <2>3, <2>4 DEF FlushSync
<1>15. CASE UNCHANGED vars
  BY <1>15 DEF vars, placeVars, deviceVars, HostSeesResults, Executed, Op
<1> QED BY <1>5, <1>6, <1>7, <1>8, <1>9, <1>10, <1>11, <1>12, <1>13, <1>14, <1>15 DEF Next

-----------------------------------------------------------------------------
(***************************************************************************)
(* The theorems                                                            *)
(***************************************************************************)

LEMMA InitIInv == Init => IInv /\ OnlyRealErrors /\ HostSeesResults
<1> SUFFICES ASSUME Init PROVE IInv /\ OnlyRealErrors /\ HostSeesResults
  OBVIOUS
<1>1. /\ cmd_chain \in CmdChainModes /\ script \in Scripts
      /\ item = 1 /\ pc = "start" /\ at = 1 /\ status = "ok" /\ run = Idle
      /\ groups = <<>> /\ flushing = FirstOf(1) /\ max_slots = 0
      /\ dev = [b \in Buffers |-> <<b>>] /\ host = dev /\ deallocated = {}
      /\ cache = [k \in {CacheKey(e) : e \in AllEntries} |-> NoContext]
      /\ exe_context = [x \in DOMAIN Executables |-> NoContext]
      /\ faults = 0 /\ blamed = FALSE
  BY DEF Init
<1>0. image = [x \in Contexts |-> <<NoPdi, "">>] /\ config = image
  BY DEF Init
<1>2. 1 \in 1 .. Len(script)
  <2>1. script \in Seq(Range(script)) /\ script # <<>>
    BY <1>1, ScriptsAssumption
  <2> QED BY <2>1
<1>3. PlaceTypes
  <2>1. flushing \in [group : Nat \ {0}, begin : Nat, slot : Nat]
    BY <1>1 DEF FirstOf
  <2>2. faults \in 0 .. MaxFaults
    BY <1>1, ConstantsAssumption
  <2>3. run \in [context : Contexts \cup {NoContext}, calls : Seq(Slot)] /\ groups \in Seq(Group)
    BY <1>1, IdleType
  <2> QED BY <1>1, <1>2, <2>1, <2>2, <2>3 DEF PlaceTypes
<1>4. DataTypes
  BY <1>1 DEF DataTypes
<1>5. ContextTypes
  BY <1>0, <1>1 DEF ContextTypes
<1>6. cmd_chain \in BOOLEAN
  BY <1>1, ConstantsAssumption
<1>7. TypeOK /\ Shapes
  BY <1>3, <1>4, <1>5, <1>6, TypesSplit
<1>8. Places /\ Fits
  BY <1>1 DEF Places, Fits, Busy
<1>9. Images
  BY <1>1 DEF Images, CacheImages, GroupImages
<1>10. Visible
  BY <1>1 DEF Visible, SlotsSynced, CallsSynced, WritesSeen, Busy
<1>11. OnlyRealErrors /\ HostSeesResults
  BY <1>1 DEF OnlyRealErrors, HostSeesResults, Executed
<1> QED BY <1>7, <1>8, <1>9, <1>10, <1>11 DEF IInv

LEMMA NextIInv == IInv /\ [Next]_vars => IInv'
BY TypesStep, PlacesStep, ImagesStep, FitsStep, VisibleStep DEF IInv

\* The inductive invariant of the command buffer: the types of the sequences it
\* builds, what each place excludes, the images of contexts, the load of the
\* groups and the buffers the host has yet to see.
THEOREM CommandsInductive == Spec => []IInv
<1>1. Init => IInv
  BY InitIInv
<1> QED BY <1>1, NextIInv, PTL DEF Spec

\* The variables keep their types through replay, runs and flushes, whatever
\* list is recorded and whichever native call fails.
THEOREM CommandTypes == Spec => []TypeOK
<1>1. IInv => TypeOK
  BY DEF IInv
<1> QED BY <1>1, CommandsInductive, PTL

\* However groups keep bare queue pointers and addresses of contexts are used
\* again, every slot that waits in a chain has its context alive, created with
\* its PDI and CU.
THEOREM SlotsOnTheirImage == Spec => []RunsOnItsImage
<1>1. ASSUME IInv PROVE RunsOnItsImage
  <2>1. PlaceTypes /\ GroupImages
    BY <1>1, TypesSplit DEF IInv, Images
  <2>2. \A i \in DOMAIN groups : groups[i].queue \in Alive
    BY <2>1, GroupsAlive
  <2> QED BY <2>1, <2>2 DEF GroupImages, RunsOnItsImage
<1> QED BY <1>1, CommandsInductive, PTL

\* An operation of the queue fails only for a native call that failed in it or
\* for what it asks that the driver refuses: no cached context lacks the CU it
\* was looked up for, and no chunk is refused that the list itself does not
\* make too large.
THEOREM ErrorsAreReal == Spec => []OnlyRealErrors
<1>1. Init => OnlyRealErrors
  BY InitIInv
<1>2. IInv /\ OnlyRealErrors /\ [Next]_vars => OnlyRealErrors'
  BY ErrorsStep
<1> QED BY <1>1, <1>2, CommandsInductive, PTL DEF Spec

\* When a recorded list has succeeded, the host sees what the device holds in
\* every buffer the list wrote, with and without chains.
THEOREM ResultsReachHost == Spec => []HostSeesResults
<1>1. Init => HostSeesResults
  BY InitIInv
<1>2. IInv /\ HostSeesResults /\ [Next]_vars => HostSeesResults'
  BY HostStep
<1> QED BY <1>1, <1>2, CommandsInductive, PTL DEF Spec
=============================================================================
