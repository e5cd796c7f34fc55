----------------------------- MODULE FifoEngines -----------------------------
(***************************************************************************)
(* Object fifos at work on the AIE array: buffers and two counting locks   *)
(* (AMDAIEObjFifoBufferization), the rings of buffer descriptors that the  *)
(* DMA channels of memory and core tiles go around (AMDAIELowerToAIE),     *)
(* cores that acquire and release, and the shim.  All of them run side by  *)
(* side and meet only in the locks and the streams.                        *)
(*                                                                         *)
(* What the passes decide is a parameter of Load: the blocks of an object  *)
(* that each channel moves, and the code of each core.  ObjectFifos says   *)
(* which ones the compiler gives it.                                       *)
(*                                                                         *)
(* A design is a record:                                                   *)
(*   depth   the buffers of each fifo, one per fifo and tile               *)
(*   tile    the tile of each fifo                                         *)
(*   space   its memory space, 1 or 2                                      *)
(*   conns   the connections by name: source, targets (a broadcast has     *)
(*           several) and the patterns srcDims and dstDims of DmaUtils     *)
(*   cores   the block of each core                                        *)
(*   output  for each core the fifo it writes                              *)
(*   reads   for each core the fifos one output is computed from, in order *)
(*   supply  how many objects the shim sends on each connection            *)
(*   outputs how many objects that is enough for, on each connection back  *)
(* An object is the sequence of the shim objects it was computed from,     *)
(* each <<number, block>>; <<>> is a buffer whose content is not defined.  *)
(***************************************************************************)
EXTENDS Integers, SequencesExt, FiniteSetsExt

CONSTANTS
  Designs,  \* what the compiler may be given
  Shim      \* the L3 end of a connection

\* Fifos have buffers, and connections lead from one fifo or the shim to others.
ASSUME DesignsAssumption ==
  \A d \in Designs :
    /\ \A f \in DOMAIN d.depth : d.depth[f] \in Nat \ {0}
    /\ Shim \notin DOMAIN d.depth
    /\ \A c \in DOMAIN d.conns :
         /\ d.conns[c].source \in DOMAIN d.depth \cup {Shim}
         /\ d.conns[c].targets \subseteq DOMAIN d.depth \cup {Shim}

VARIABLES
  design,
  stage,     \* "compile", "run" or "failed"
  image,     \* what the passes made: the ring of each channel, the code of each core
  producer,  \* the producer lock of each fifo
  consumer,  \* the consumer lock of each fifo
  buffer,    \* the content of each fifo's buffers, by part
  channel,   \* for each DMA channel its position in the ring and whether it moves data
  stream,    \* what is on the way to each <<connection, target>>, a sequence of at most one
  core,      \* for each core its program counter, the buffers it acquired and what it read
  sent,      \* how many objects the shim put on each connection
  received   \* the objects the shim got from each connection

vars == <<design, stage, image, producer, consumer, buffer, channel, stream, core, sent, received>>

---------------------------------------------------------------------------
(* AMDAIEObjFifoBufferization: the locks and buffers of a fifo             *)

Fifos == DOMAIN design.depth
Connections == DOMAIN design.conns
Cores == DOMAIN design.cores
CopyLikeProducers(f) == {c \in Connections : f \in design.conns[c].targets}
CopyLikeConsumers(f) == {c \in Connections : design.conns[c].source = f}

\* Mutant of producerLockInitValue: the users are counted together.
UsersTimesDepth(f) ==
  (Cardinality(CopyLikeProducers(f)) + Cardinality(CopyLikeConsumers(f))) * design.depth[f]

producerLockInitValue(f) ==
  Max({Cardinality(CopyLikeProducers(f)), Cardinality(CopyLikeConsumers(f))}) * design.depth[f]

\* Every producer of a fifo writes a part of its own; a core writes all of it.
Parts(f) == IF CopyLikeProducers(f) = {} THEN {"core"} ELSE CopyLikeProducers(f)

---------------------------------------------------------------------------
(* AMDAIELowerToAIE: the rings of descriptors                              *)

\* The units one side takes from a lock and gives to the other at a time.
AcqNum(own, other) ==
  IF Cardinality(own) < Cardinality(other) THEN Cardinality(other) \div Cardinality(own) ELSE 1

\* The ring of descriptors of a channel: each buffer in turn, once for each of
\* the blocks of an object it moves, acquiring at the first and releasing at
\* the last of them.
createDMABlocks(f, blocks, units) ==
  LET n == Len(blocks)
  IN  [i \in 1 .. design.depth[f] * n |->
        [fifo |-> f, buffer |-> (i - 1) \div n, block |-> blocks[((i - 1) % n) + 1],
         acquire |-> IF (i - 1) % n = 0 THEN units ELSE 0,
         release |-> IF (i - 1) % n = n - 1 THEN units ELSE 0]]

\* <<c, source>> is the MM2S channel of connection c, <<c, f>> its S2MM channel
\* at target f.
SourceChannels == {<<c, design.conns[c].source>> : c \in {d \in Connections : design.conns[d].source # Shim}}
TargetChannels == UNION {{<<c, f>> : f \in design.conns[c].targets \ {Shim}} : c \in Connections}
Channels == SourceChannels \cup TargetChannels
Streams == UNION {{<<c, f>> : f \in design.conns[c].targets} : c \in Connections}

SourceRing(f, blocks) ==
  createDMABlocks(f, blocks, AcqNum(CopyLikeConsumers(f), CopyLikeProducers(f)))
TargetRing(f, blocks) ==
  createDMABlocks(f, blocks, AcqNum(CopyLikeProducers(f), CopyLikeConsumers(f)))

connectionToAIE(ch, blocks) ==
  IF ch \in SourceChannels THEN SourceRing(ch[2], blocks) ELSE TargetRing(ch[2], blocks)

---------------------------------------------------------------------------
(* Loading what the passes made                                            *)

Init ==
  /\ design \in Designs
  /\ stage = "compile"
  /\ image = <<>>
  /\ producer = <<>> /\ consumer = <<>> /\ buffer = <<>>
  /\ channel = <<>> /\ stream = <<>> /\ core = <<>> /\ sent = <<>> /\ received = <<>>

SentConnections == {c \in Connections : design.conns[c].source = Shim}
ReceivedConnections == {c \in Connections : Shim \in design.conns[c].targets}

Load(blocks, code) ==
  /\ stage = "compile"
  /\ stage' = "run"
  /\ image' = [rings |-> [ch \in Channels |-> connectionToAIE(ch, blocks[ch])], code |-> code]
  /\ producer' = [f \in Fifos |-> producerLockInitValue(f)]
  /\ consumer' = [f \in Fifos |-> 0]
  /\ buffer' = [f \in Fifos |-> [b \in 0 .. design.depth[f] - 1 |-> [p \in Parts(f) |-> <<>>]]]
  /\ channel' = [ch \in Channels |-> [at |-> 1, moving |-> FALSE]]
  /\ stream' = [s \in Streams |-> <<>>]
  /\ core' = [k \in Cores |-> [pc |-> 1, held |-> [f \in Fifos |-> 0], read |-> <<>>]]
  /\ sent' = [c \in SentConnections |-> 0]
  /\ received' = [c \in ReceivedConnections |-> <<>>]
  /\ UNCHANGED design

Refuse ==
  /\ stage = "compile"
  /\ stage' = "failed"
  /\ UNCHANGED <<design, image, producer, consumer, buffer, channel, stream, core, sent, received>>

---------------------------------------------------------------------------
(* The DMA channels                                                        *)

Descriptor(ch) == image.rings[ch][channel[ch].at]

\* The object of a buffer, its parts side by side, and what a descriptor sends
\* of it.
Object(f, b) ==
  LET parts == SetToSeq(Parts(f)) IN FlattenSeq([i \in DOMAIN parts |-> buffer[f][b][parts[i]]])
BlockOf(object, block) == [i \in DOMAIN object |-> <<object[i][1], block>>]

\* A source channel acquires from the consumer lock, a target channel from the
\* producer lock; a target then overwrites its part of the buffer.
StartDescriptor(ch) ==
  LET bd == Descriptor(ch)
  IN  /\ ~channel[ch].moving
      /\ IF ch \in SourceChannels
           THEN /\ consumer[bd.fifo] >= bd.acquire
                /\ consumer' = [consumer EXCEPT ![bd.fifo] = @ - bd.acquire]
                /\ UNCHANGED <<producer, buffer>>
           ELSE /\ producer[bd.fifo] >= bd.acquire
                /\ producer' = [producer EXCEPT ![bd.fifo] = @ - bd.acquire]
                /\ buffer' = [buffer EXCEPT ![bd.fifo][bd.buffer][ch[1]] = <<>>]
                /\ UNCHANGED consumer
      /\ channel' = [channel EXCEPT ![ch].moving = TRUE]
      /\ UNCHANGED <<design, stage, image, stream, core, sent, received>>

Advance(ch) == channel' = [channel EXCEPT ![ch] = [at |-> (@.at % Len(image.rings[ch])) + 1, moving |-> FALSE]]

\* The streams of a connection take an object when all of them are free.
Put(c, object) ==
  /\ \A s \in Streams : s[1] = c => stream[s] = <<>>
  /\ stream' = [s \in Streams |-> IF s[1] = c THEN <<object>> ELSE stream[s]]

SendObject(ch) ==
  LET bd == Descriptor(ch)
  IN  /\ ch \in SourceChannels /\ channel[ch].moving
      /\ Put(ch[1], BlockOf(Object(bd.fifo, bd.buffer), bd.block))
      /\ producer' = [producer EXCEPT ![bd.fifo] = @ + bd.release]
      /\ Advance(ch)
      /\ UNCHANGED <<design, stage, image, consumer, buffer, core, sent, received>>

ReceiveObject(ch) ==
  LET bd == Descriptor(ch)
  IN  /\ ch \in TargetChannels /\ channel[ch].moving /\ stream[ch] # <<>>
      /\ buffer' = [buffer EXCEPT ![bd.fifo][bd.buffer][ch[1]] = stream[ch][1]]
      /\ stream' = [stream EXCEPT ![ch] = <<>>]
      /\ consumer' = [consumer EXCEPT ![bd.fifo] = @ + bd.release]
      /\ Advance(ch)
      /\ UNCHANGED <<design, stage, image, producer, core, sent, received>>

---------------------------------------------------------------------------
(* The cores: getLockToBeUsed and what the core does with the buffer       *)

Instruction(k) == image.code[k][core[k].pc]
NextPc(k) == (core[k].pc % Len(image.code[k])) + 1

AcquireRead(k) ==
  LET i == Instruction(k)
  IN  /\ i.op = "acquire" /\ i.port = "Consume" /\ consumer[i.fifo] >= 1
      /\ consumer' = [consumer EXCEPT ![i.fifo] = @ - 1]
      /\ core' = [core EXCEPT ![k].pc = NextPc(k), ![k].held[i.fifo] = i.buffer]
      /\ UNCHANGED <<design, stage, image, producer, buffer, channel, stream, sent, received>>

AcquireWrite(k) ==
  LET i == Instruction(k)
  IN  /\ i.op = "acquire" /\ i.port = "Produce" /\ producer[i.fifo] >= 1
      /\ producer' = [producer EXCEPT ![i.fifo] = @ - 1]
      /\ buffer' = [buffer EXCEPT ![i.fifo][i.buffer]["core"] = <<>>]
      /\ core' = [core EXCEPT ![k].pc = NextPc(k), ![k].held[i.fifo] = i.buffer]
      /\ UNCHANGED <<design, stage, image, consumer, channel, stream, sent, received>>

\* The buffer is read until the very moment it is released.
ReleaseRead(k) ==
  LET i == Instruction(k)
      b == core[k].held[i.fifo]
  IN  /\ i.op = "release" /\ i.port = "Consume"
      /\ producer' = [producer EXCEPT ![i.fifo] = @ + 1]
      /\ core' = [core EXCEPT ![k].pc = NextPc(k), ![k].read = @ \o Object(i.fifo, b)]
      /\ UNCHANGED <<design, stage, image, consumer, buffer, channel, stream, sent, received>>

\* The buffer gets what was computed from everything read since the last one.
ReleaseWrite(k) ==
  LET i == Instruction(k)
      b == core[k].held[i.fifo]
  IN  /\ i.op = "release" /\ i.port = "Produce"
      /\ consumer' = [consumer EXCEPT ![i.fifo] = @ + 1]
      /\ buffer' = [buffer EXCEPT ![i.fifo][b]["core"] = core[k].read]
      /\ core' = [core EXCEPT ![k].pc = NextPc(k), ![k].read = <<>>]
      /\ UNCHANGED <<design, stage, image, producer, channel, stream, sent, received>>

CoreStep(k) == AcquireRead(k) \/ AcquireWrite(k) \/ ReleaseRead(k) \/ ReleaseWrite(k)

---------------------------------------------------------------------------
(* The shim, driven by the control code of NpuControlCode                  *)

ShimSend(c) ==
  /\ sent[c] < design.supply
  /\ Put(c, <<<<sent[c] + 1, 0>>>>)
  /\ sent' = [sent EXCEPT ![c] = @ + 1]
  /\ UNCHANGED <<design, stage, image, producer, consumer, buffer, channel, core, received>>

ShimReceive(c) ==
  /\ stream[<<c, Shim>>] # <<>>
  /\ received' = [received EXCEPT ![c] = Append(@, stream[<<c, Shim>>][1])]
  /\ stream' = [stream EXCEPT ![<<c, Shim>>] = <<>>]
  /\ UNCHANGED <<design, stage, image, producer, consumer, buffer, channel, core, sent>>

---------------------------------------------------------------------------
(* The array                                                               *)

ChannelStep(ch) == StartDescriptor(ch) \/ SendObject(ch) \/ ReceiveObject(ch)

Run ==
  /\ stage = "run"
  /\ \/ \E ch \in Channels : ChannelStep(ch)
     \/ \E k \in Cores : CoreStep(k)
     \/ \E c \in SentConnections : ShimSend(c)
     \/ \E c \in ReceivedConnections : ShimReceive(c)

Ports == {"Produce", "Consume"}

\* The users of one end of a fifo.
EndConnections(f, p) == IF p = "Produce" THEN CopyLikeProducers(f) ELSE CopyLikeConsumers(f)
EndCores(f, p) == {k \in Cores : IF p = "Produce" THEN design.output[k] = f ELSE f \in Range(design.reads[k])}

AtMostOne(S) == \A x, y \in S : x = y

\* Each end of the fifo has one user at most, a connection (which may be a
\* broadcast) or a core, and not the same one.
OneToOne(f) ==
  /\ \A p \in Ports : IF EndConnections(f, p) = {} THEN AtMostOne(EndCores(f, p))
                     ELSE AtMostOne(EndConnections(f, p)) /\ EndCores(f, p) = {}
  /\ EndConnections(f, "Produce") \cap EndConnections(f, "Consume") = {}
  /\ EndCores(f, "Produce") \cap EndCores(f, "Consume") = {}

\* Every channel moves some block of an object, and the cores acquire and
\* release the fifos they read or write.
IsImage(blocks, code) ==
  /\ \A ch \in Channels : blocks[ch] \in Seq(Nat) /\ blocks[ch] # <<>>
  /\ \A k \in Cores :
       /\ DOMAIN code[k] = 1 .. Len(code[k]) /\ Len(code[k]) \in Nat \ {0}
       /\ \A i \in DOMAIN code[k] :
            /\ code[k][i].op \in {"acquire", "release"}
            /\ code[k][i].fifo \in Fifos /\ code[k][i].port \in Ports
            /\ k \in EndCores(code[k][i].fifo, code[k][i].port)

\* The instructions of core k up to n that do op with fifo f.
Instructions(k, op, f, p, n) ==
  {i \in 1 .. n : image.code[k][i].op = op /\ image.code[k][i].fifo = f /\ image.code[k][i].port = p}
Taken(k, f, p, n) == Cardinality(Instructions(k, "acquire", f, p, n))
Given(k, f, p, n) == Cardinality(Instructions(k, "release", f, p, n))

\* The text of every core goes around the buffers of f as a ring of descriptors
\* does: one at a time, in turn, and a round of the endless loop ends where it
\* began.
InStep(f) ==
  \A k \in Cores, p \in Ports :
    LET size == Len(image.code[k])
    IN  /\ \A n \in 0 .. size : Taken(k, f, p, n) - Given(k, f, p, n) \in {0, 1}
        /\ \A n \in Instructions(k, "acquire", f, p, size) :
             image.code[k][n].buffer = Taken(k, f, p, n - 1) % design.depth[f]
        /\ Taken(k, f, p, size) = Given(k, f, p, size)
        /\ Given(k, f, p, size) % design.depth[f] = 0

CoresInStep == \A f \in Fifos : OneToOne(f) => InStep(f)

\* The array under any compiler that keeps the text of the cores in step.
Loads == \E blocks, code : IsImage(blocks, code) /\ Load(blocks, code) /\ CoresInStep'

ArraySpec == Init /\ [][Loads \/ Refuse \/ Run]_vars

---------------------------------------------------------------------------
(* Properties                                                              *)

\* Core k has acquired a buffer of f and not released it.
Holds(k, f, p) == Taken(k, f, p, core[k].pc - 1) > Given(k, f, p, core[k].pc - 1)

\* A channel or a core is using the buffer now.
Moves(channels, f, b) ==
  \E ch \in channels : channel[ch].moving /\ Descriptor(ch).fifo = f /\ Descriptor(ch).buffer = b
Uses(f, b, p) == \E k \in Cores : Holds(k, f, p) /\ core[k].held[f] = b

Writing(f, b) == Moves(TargetChannels, f, b) \/ Uses(f, b, "Produce")
Reading(f, b) == Moves(SourceChannels, f, b) \/ Uses(f, b, "Consume")

\* No buffer of the fifo is read while it is written.
Exclusive(f) == \A b \in DOMAIN buffer[f] : ~(Writing(f, b) /\ Reading(f, b))

\* No buffer is read while it is written: the two locks of a fifo keep a
\* producer and a consumer that use the same buffer apart.
BufferExclusive == stage = "run" => \A f \in Fifos : Exclusive(f)

---------------------------------------------------------------------------
(* A fifo as a queue                                                       *)

\* The buffer that the user of an end has acquired or will acquire next, and
\* how many it has acquired.
At(f, p) ==
  IF EndConnections(f, p) # {} THEN Descriptor(<<CHOOSE c \in EndConnections(f, p) : TRUE, f>>).buffer
  ELSE IF EndCores(f, p) # {}
       THEN LET k == CHOOSE j \in EndCores(f, p) : TRUE
            IN  Given(k, f, p, core[k].pc - 1) % design.depth[f]
       ELSE 0

Busy(f, p) ==
  IF EndConnections(f, p) # {}
  THEN LET ch == <<CHOOSE c \in EndConnections(f, p) : TRUE, f>>
       IN  IF channel[ch].moving \/ Descriptor(ch).acquire = 0 THEN 1 ELSE 0
  ELSE IF EndCores(f, p) # {}
       THEN LET k == CHOOSE j \in EndCores(f, p) : TRUE
            IN  Taken(k, f, p, core[k].pc - 1) - Given(k, f, p, core[k].pc - 1)
       ELSE 0

\* The objects released by the producer and not yet by the consumer: the
\* buffers behind the one the producer is at, oldest first.
Filled(f) == consumer[f] + Busy(f, "Consume")
Contents(f) ==
  LET filled == Filled(f)
      first == At(f, "Produce") + design.depth[f] - filled
  IN  [i \in 1 .. filled |-> buffer[f][(first + i - 1) % design.depth[f]]]

Queue(f) == IF stage = "run" /\ f \in Fifos /\ OneToOne(f) THEN Contents(f) ELSE <<>>
Depth(f) == IF f \in Fifos THEN design.depth[f] ELSE 0

AllFifos == UNION {DOMAIN d.depth : d \in Designs}

Contract ==
  INSTANCE FifoContract WITH Fifo <- AllFifos, depth <- [f \in AllFifos |-> Depth(f)],
                             queue <- [f \in AllFifos |-> Queue(f)]

\* A fifo with one user at each end is a queue: every object the producer
\* releases comes out once, unchanged and in order, however far the channels
\* and cores run ahead of each other, and never more than its buffers hold.
ActsAsQueue == Contract!Spec

\* What the consumer of such a fifo is reading is the oldest object of the queue.
ReadsOldest ==
  stage = "run" =>
    \A f \in Fifos : OneToOne(f) =>
      \A b \in DOMAIN buffer[f] :
        Reading(f, b) => Queue(f) # <<>> /\ buffer[f][b] = Head(Queue(f))
=============================================================================
