----------------------------- MODULE FifoProofs -----------------------------
(***************************************************************************)
(* Proofs about object fifos with one user at each end, for every design,  *)
(* every split of the objects into descriptors and every text of the cores *)
(* that keeps in step: no buffer is read while it is written, the consumer *)
(* reads the oldest object, and the fifo is the queue of FifoContract.     *)
(*                                                                         *)
(* The argument: each end of a fifo is a position among the buffers and a  *)
(* claim of zero or one unit (EndsAt).  Whatever the engines do, one end   *)
(* takes a unit or gives one and moves on, or both stay (RunMoves).  The   *)
(* units of the two locks and the two claims always add up to the depth    *)
(* and the producer is ahead of the consumer by the objects between them   *)
(* (FifoInv), which these moves keep by arithmetic.                        *)
(***************************************************************************)
EXTENDS FifoEngines, FiniteSetTheorems, TLAPS

---------------------------------------------------------------------------
(* Arithmetic of rings                                                     *)

\* The next buffer of a ring of D.
Succ(D, b) == IF b + 1 = D THEN 0 ELSE b + 1

LEMMA ModSmall == ASSUME NEW D \in Nat \ {0}, NEW a \in Int, 0 <= a, a < D PROVE a % D = a
  OBVIOUS

LEMMA ModWrap == ASSUME NEW D \in Nat \ {0}, NEW a \in Int, D <= a, a < 2 * D PROVE a % D = a - D
<1>1. a - D \in 0 .. D - 1 /\ a = 1 * D + (a - D)
  OBVIOUS
<1> QED BY <1>1

LEMMA ModNext == ASSUME NEW D \in Nat \ {0}, NEW a \in Nat PROVE (a + 1) % D = Succ(D, a % D)
<1> DEFINE q == a \div D
           r == a % D
<1>1. q \in Nat /\ r \in 0 .. D - 1 /\ a = D * q + r
  OBVIOUS
<1> HIDE DEF q, r
<1>2. CASE r + 1 = D
  <2>1. a + 1 = D * (q + 1)
    BY <1>1, <1>2
  <2>2. (a + 1) % D = 0
    BY <2>1, <1>1
  <2> QED BY <2>2, <1>2 DEF Succ, r
<1>3. CASE r + 1 # D
  <2>1. a + 1 = D * q + (r + 1) /\ r + 1 \in 0 .. D - 1
    BY <1>1, <1>3
  <2>2. (a + 1) % D = r + 1
    BY <2>1, <1>1
  <2> QED BY <2>2, <1>3 DEF Succ, r
<1> QED BY <1>2, <1>3

\* Descriptor j of a ring of D buffers with n descriptors each, and the next.
LEMMA DescriptorNext ==
  ASSUME NEW D \in Nat \ {0}, NEW n \in Nat \ {0}, NEW j \in 0 .. D * n - 1
  PROVE  LET m == IF j + 1 = D * n THEN 0 ELSE j + 1
         IN  /\ j \div n \in 0 .. D - 1
             /\ j % n # n - 1 => m % n # 0 /\ m \div n = j \div n
             /\ j % n = n - 1 => m % n = 0 /\ m \div n = Succ(D, j \div n)
<1> DEFINE b == j \div n
           r == j % n
           m == IF j + 1 = D * n THEN 0 ELSE j + 1
<1>1. D * n \in Nat /\ j \in Nat
  OBVIOUS
<1>2. b \in Nat /\ r \in 0 .. n - 1 /\ j = n * b + r
  BY <1>1
<1> HIDE DEF b, r
<1>3. b < D
  <2> SUFFICES ASSUME b >= D PROVE FALSE
    BY <1>2
  <2>1. n * b >= n * D
    BY <1>2
  <2> QED BY <2>1, <1>2, <1>1
<1>4. CASE r # n - 1
  <2>1. j + 1 = n * b + (r + 1) /\ r + 1 \in 1 .. n - 1
    BY <1>2, <1>4
  <2>2. n * b <= n * (D - 1)
    BY <1>2, <1>3
  <2>3. j + 1 # D * n
    BY <2>1, <2>2, <1>2
  <2>4. (j + 1) % n = r + 1 /\ (j + 1) \div n = b
    BY <2>1, <1>2
  <2> QED BY <1>2, <1>3, <1>4, <2>1, <2>3, <2>4 DEF b, r
<1>5. CASE r = n - 1
  <2>1. j + 1 = n * (b + 1)
    BY <1>2, <1>5
  <2>2. (j + 1) % n = 0 /\ (j + 1) \div n = b + 1
    BY <2>1, <1>2
  <2>3. CASE b + 1 = D
    <3>1. m = 0
      BY <2>1, <2>3, <1>1
    <3>2. 0 % n = 0 /\ 0 \div n = 0
      OBVIOUS
    <3> QED BY <3>1, <3>2, <2>3, <1>2, <1>3, <1>5 DEF b, r, Succ
  <2>4. CASE b + 1 # D
    <3>1. j + 1 # D * n
      <4>1. b + 1 \in Nat /\ b + 1 < D
        BY <1>2, <1>3, <2>4
      <4>2. n * (b + 1) < n * D
        BY <4>1
      <4> QED BY <4>2, <2>1, <1>1
    <3> QED BY <3>1, <2>2, <2>4, <1>2, <1>3, <1>5 DEF b, r, Succ
  <2> QED BY <2>3, <2>4
<1> QED BY <1>4, <1>5

---------------------------------------------------------------------------
(* Counting the instructions of a core                                     *)

LEMMA CountFacts ==
  \A k, op, f, p : \A n \in Nat :
    /\ Instructions(k, op, f, p, 0) = {}
    /\ IsFiniteSet(Instructions(k, op, f, p, n))
    /\ Cardinality(Instructions(k, op, f, p, n)) \in Nat
    /\ Cardinality(Instructions(k, op, f, p, n + 1)) =
         Cardinality(Instructions(k, op, f, p, n)) + IF n + 1 \in Instructions(k, op, f, p, n + 1) THEN 1 ELSE 0
<1> SUFFICES ASSUME NEW k, NEW op, NEW f, NEW p, NEW n \in Nat
             PROVE  /\ Instructions(k, op, f, p, 0) = {}
                    /\ IsFiniteSet(Instructions(k, op, f, p, n))
                    /\ Cardinality(Instructions(k, op, f, p, n)) \in Nat
                    /\ Cardinality(Instructions(k, op, f, p, n + 1)) =
                         Cardinality(Instructions(k, op, f, p, n))
                         + IF n + 1 \in Instructions(k, op, f, p, n + 1) THEN 1 ELSE 0
  OBVIOUS
<1> DEFINE S == Instructions(k, op, f, p, n)
           T == Instructions(k, op, f, p, n + 1)
<1>1. S \subseteq 1 .. n /\ IsFiniteSet(1 .. n)
  BY FS_Interval DEF Instructions
<1>2. IsFiniteSet(S) /\ Cardinality(S) \in Nat
  BY <1>1, FS_Subset, FS_CardinalityType
<1>3. n + 1 \in T => T = S \cup {n + 1}
  BY DEF Instructions
<1>4. n + 1 \notin T => T = S
  BY DEF Instructions
<1>5. n + 1 \notin S
  BY <1>1
<1> HIDE DEF S, T
<1>6. Cardinality(S \cup {n + 1}) = Cardinality(S) + 1
  BY <1>2, <1>5, FS_AddElement
<1>7. Cardinality(T) = Cardinality(S) + IF n + 1 \in T THEN 1 ELSE 0
  <2>1. CASE n + 1 \in T
    BY <2>1, <1>3, <1>6
  <2>2. CASE n + 1 \notin T
    BY <2>2, <1>4, <1>2
  <2> QED BY <2>1, <2>2
<1>8. Instructions(k, op, f, p, 0) = {}
  BY DEF Instructions
<1> QED BY <1>2, <1>7, <1>8 DEF S, T

\* What one more instruction does to the counts.
LEMMA TextStep ==
  \A k, f, p : \A n \in Nat \ {0} :
    LET i == image.code[k][n]
    IN  /\ Taken(k, f, p, n - 1) \in Nat /\ Given(k, f, p, n - 1) \in Nat
        /\ Taken(k, f, p, n) = Taken(k, f, p, n - 1)
             + IF i.op = "acquire" /\ i.fifo = f /\ i.port = p THEN 1 ELSE 0
        /\ Given(k, f, p, n) = Given(k, f, p, n - 1)
             + IF i.op = "release" /\ i.fifo = f /\ i.port = p THEN 1 ELSE 0
        /\ Taken(k, f, p, 0) = 0 /\ Given(k, f, p, 0) = 0
<1> SUFFICES ASSUME NEW k, NEW f, NEW p, NEW n \in Nat \ {0}
             PROVE  LET i == image.code[k][n]
                    IN  /\ Taken(k, f, p, n - 1) \in Nat /\ Given(k, f, p, n - 1) \in Nat
                        /\ Taken(k, f, p, n) = Taken(k, f, p, n - 1)
                             + IF i.op = "acquire" /\ i.fifo = f /\ i.port = p THEN 1 ELSE 0
                        /\ Given(k, f, p, n) = Given(k, f, p, n - 1)
                             + IF i.op = "release" /\ i.fifo = f /\ i.port = p THEN 1 ELSE 0
                        /\ Taken(k, f, p, 0) = 0 /\ Given(k, f, p, 0) = 0
  OBVIOUS
<1>1. n - 1 \in Nat /\ (n - 1) + 1 = n
  OBVIOUS
<1>2. \A op : n \in Instructions(k, op, f, p, n)
                <=> image.code[k][n].op = op /\ image.code[k][n].fifo = f /\ image.code[k][n].port = p
  BY DEF Instructions
<1>3. \A op : /\ Cardinality(Instructions(k, op, f, p, n - 1)) \in Nat
              /\ Cardinality(Instructions(k, op, f, p, n)) =
                   Cardinality(Instructions(k, op, f, p, n - 1))
                   + IF n \in Instructions(k, op, f, p, n) THEN 1 ELSE 0
              /\ Cardinality(Instructions(k, op, f, p, 0)) = 0
  BY <1>1, CountFacts, FS_EmptySet
<1> QED BY <1>2, <1>3 DEF Taken, Given

---------------------------------------------------------------------------
(* The design                                                              *)

LEMMA DesignFacts == 
  design \in Designs =>
    /\ \A f \in Fifos : design.depth[f] \in Nat \ {0}
    /\ Shim \notin Fifos
    /\ \A f, p : EndConnections(f, p) \subseteq Connections
  BY DesignsAssumption DEF Fifos, EndConnections, CopyLikeProducers, CopyLikeConsumers, Connections

\* A fifo that has connections and one user at each end counts in units of one,
\* as many as it has buffers.
LEMMA OneUnit ==
  \A f \in Fifos : OneToOne(f) /\ design.depth[f] \in Nat \ {0} =>
    /\ producerLockInitValue(f) \in {0, design.depth[f]}
    /\ \A p \in Ports : EndConnections(f, p) # {} =>
         AcqNum(EndConnections(f, p), EndConnections(f, IF p = "Produce" THEN "Consume" ELSE "Produce")) = 1
<1> SUFFICES ASSUME NEW f \in Fifos, OneToOne(f), design.depth[f] \in Nat \ {0}
             PROVE  /\ producerLockInitValue(f) \in {0, design.depth[f]}
                    /\ \A p \in Ports : EndConnections(f, p) # {} =>
                         AcqNum(EndConnections(f, p),
                                EndConnections(f, IF p = "Produce" THEN "Consume" ELSE "Produce")) = 1
  OBVIOUS
<1>1. \A p \in Ports : /\ Cardinality(EndConnections(f, p)) \in {0, 1}
                       /\ EndConnections(f, p) # {} => Cardinality(EndConnections(f, p)) = 1
  <2> SUFFICES ASSUME NEW p \in Ports
               PROVE  /\ Cardinality(EndConnections(f, p)) \in {0, 1}
                      /\ EndConnections(f, p) # {} => Cardinality(EndConnections(f, p)) = 1
    OBVIOUS
  <2>1. EndConnections(f, p) = {} \/ \E c : EndConnections(f, p) = {c}
    BY DEF OneToOne, AtMostOne
  <2> QED BY <2>1, FS_EmptySet, FS_Singleton
<1> DEFINE a == Cardinality(CopyLikeProducers(f))
           b == Cardinality(CopyLikeConsumers(f))
<1>2. a \in {0, 1} /\ b \in {0, 1}
  BY <1>1 DEF Ports, EndConnections
<1>3. Max({a, b}) \in {0, 1}
  BY <1>2 DEF Max
<1>4. producerLockInitValue(f) \in {0, design.depth[f]}
  BY <1>3 DEF producerLockInitValue
<1>5. ASSUME NEW p \in Ports, EndConnections(f, p) # {}
      PROVE  AcqNum(EndConnections(f, p), EndConnections(f, IF p = "Produce" THEN "Consume" ELSE "Produce")) = 1
  BY <1>5, <1>1 DEF AcqNum, Ports
<1> QED BY <1>4, <1>5

LEMMA ChannelFacts ==
  design \in Designs =>
    /\ \A ch \in Channels : /\ ch = <<ch[1], ch[2]>> /\ ch[2] \in Fifos
                            /\ ch \in SourceChannels <=> ch[1] \in EndConnections(ch[2], "Consume")
                            /\ ch \in TargetChannels <=> ch[1] \in EndConnections(ch[2], "Produce")
    /\ \A f \in Fifos, p \in Ports : \A c \in EndConnections(f, p) : <<c, f>> \in Channels
<1> SUFFICES ASSUME design \in Designs
             PROVE  /\ \A ch \in Channels :
                         /\ ch = <<ch[1], ch[2]>> /\ ch[2] \in Fifos
                         /\ ch \in SourceChannels <=> ch[1] \in EndConnections(ch[2], "Consume")
                         /\ ch \in TargetChannels <=> ch[1] \in EndConnections(ch[2], "Produce")
                    /\ \A f \in Fifos, p \in Ports : \A c \in EndConnections(f, p) : <<c, f>> \in Channels
  OBVIOUS
<1>1. \A c \in Connections : /\ design.conns[c].source \in Fifos \cup {Shim}
                             /\ design.conns[c].targets \subseteq Fifos \cup {Shim}
  BY DesignsAssumption DEF Connections, Fifos
<1>2. \A c, f : f \in Fifos =>
        /\ <<c, f>> \in SourceChannels <=> c \in Connections /\ design.conns[c].source = f
        /\ <<c, f>> \in TargetChannels <=> c \in Connections /\ f \in design.conns[c].targets
  <2> SUFFICES ASSUME NEW c, NEW f \in Fifos
               PROVE  /\ <<c, f>> \in SourceChannels <=> c \in Connections /\ design.conns[c].source = f
                      /\ <<c, f>> \in TargetChannels <=> c \in Connections /\ f \in design.conns[c].targets
    OBVIOUS
  <2>1. f # Shim
    BY DesignFacts
  <2>2. <<c, f>> \in SourceChannels <=> c \in Connections /\ design.conns[c].source = f
    BY <2>1 DEF SourceChannels
  <2>3. <<c, f>> \in TargetChannels <=> c \in Connections /\ f \in design.conns[c].targets
    BY <2>1 DEF TargetChannels
  <2> QED BY <2>2, <2>3
<1>3. \A ch \in Channels : ch = <<ch[1], ch[2]>> /\ ch[2] \in Fifos
  BY <1>1 DEF Channels, SourceChannels, TargetChannels
<1>4. \A c, f : /\ c \in EndConnections(f, "Consume") <=> c \in Connections /\ design.conns[c].source = f
                /\ c \in EndConnections(f, "Produce") <=> c \in Connections /\ f \in design.conns[c].targets
  BY DEF EndConnections, CopyLikeProducers, CopyLikeConsumers
<1>5. ASSUME NEW ch \in Channels
      PROVE  /\ ch \in SourceChannels <=> ch[1] \in EndConnections(ch[2], "Consume")
             /\ ch \in TargetChannels <=> ch[1] \in EndConnections(ch[2], "Produce")
  BY <1>2, <1>3, <1>4
<1>6. ASSUME NEW f \in Fifos, NEW p \in Ports, NEW c \in EndConnections(f, p) PROVE <<c, f>> \in Channels
  BY <1>2, <1>4 DEF Channels, Ports
<1> QED BY <1>3, <1>5, <1>6

---------------------------------------------------------------------------
(* The inductive invariant                                                 *)

\* The ring of a channel goes around the buffers with n descriptors for each;
\* with one user at each end it takes and gives one unit per buffer.
RingOf(ch, n) ==
  LET ring == image.rings[ch]
      f == ch[2]
  IN  /\ Len(ring) = design.depth[f] * n
      /\ \A i \in 1 .. design.depth[f] * n :
           /\ ring[i].fifo = f /\ ring[i].buffer = (i - 1) \div n
           /\ OneToOne(f) => /\ ring[i].acquire = IF (i - 1) % n = 0 THEN 1 ELSE 0
                             /\ ring[i].release = IF (i - 1) % n = n - 1 THEN 1 ELSE 0

\* The instructions of a core touch the fifos it reads and writes.
TextOf(k) ==
  /\ DOMAIN image.code[k] = 1 .. Len(image.code[k]) /\ Len(image.code[k]) \in Nat \ {0}
  /\ \A i \in DOMAIN image.code[k] :
       /\ image.code[k][i].op \in {"acquire", "release"}
       /\ image.code[k][i].fifo \in Fifos /\ image.code[k][i].port \in Ports
       /\ k \in EndCores(image.code[k][i].fifo, image.code[k][i].port)

Image ==
  /\ \A ch \in Channels : \E n \in Nat \ {0} : RingOf(ch, n)
  /\ \A k \in Cores : TextOf(k)
  /\ CoresInStep

Engines ==
  /\ DOMAIN producer = Fifos /\ DOMAIN consumer = Fifos
  /\ DOMAIN buffer = Fifos /\ \A f \in Fifos : DOMAIN buffer[f] = 0 .. design.depth[f] - 1
  /\ channel \in [Channels -> [at : Nat, moving : BOOLEAN]]
  /\ \A ch \in Channels : channel[ch].at \in 1 .. Len(image.rings[ch])
  /\ DOMAIN core = Cores
  /\ \A k \in Cores : /\ DOMAIN core[k] = {"pc", "held", "read"} /\ DOMAIN core[k].held = Fifos
                      /\ core[k].pc \in 1 .. Len(image.code[k])

\* The units of a fifo are in its locks or with its users.
Units(f) ==
  /\ producer[f] \in Nat /\ consumer[f] \in Nat
  /\ producer[f] + Busy(f, "Produce") + consumer[f] + Busy(f, "Consume") = producerLockInitValue(f)

\* The producer is ahead of the consumer by the objects between them.
InTurn(f) ==
  At(f, "Produce") \in {At(f, "Consume") + Filled(f), At(f, "Consume") + Filled(f) - design.depth[f]}

\* A core that has acquired holds the buffer it is at.
HeldBuffer(f) ==
  \A k \in Cores, p \in Ports :
    Holds(k, f, p) => core[k].held[f] = Given(k, f, p, core[k].pc - 1) % design.depth[f]

FifoInv(f) == Units(f) /\ InTurn(f) /\ HeldBuffer(f)

Loaded == Image /\ Engines /\ \A f \in Fifos : OneToOne(f) => FifoInv(f)

IInv == design \in Designs /\ (stage = "run" => Loaded)

---------------------------------------------------------------------------
(* The ends of a fifo                                                      *)

\* The position and the claim of an end are those of its only user.
ConnectionEnd(f, p, c) ==
  /\ At(f, p) = Descriptor(<<c, f>>).buffer
  /\ Busy(f, p) = IF channel[<<c, f>>].moving \/ Descriptor(<<c, f>>).acquire = 0 THEN 1 ELSE 0

CoreEnd(f, p, k) ==
  \A n : n = core[k].pc - 1 => /\ At(f, p) = Given(k, f, p, n) % design.depth[f]
                              /\ Busy(f, p) = Taken(k, f, p, n) - Given(k, f, p, n)

EndsOfOneUser ==
  \A f, p : OneToOne(f) /\ p \in Ports =>
    /\ \A c \in EndConnections(f, p) : ConnectionEnd(f, p, c)
    /\ \A k \in EndCores(f, p) : CoreEnd(f, p, k)
    /\ EndConnections(f, p) = {} /\ EndCores(f, p) = {} => At(f, p) = 0 /\ Busy(f, p) = 0

LEMMA EndsAt == EndsOfOneUser
<1> SUFFICES ASSUME NEW f, NEW p \in Ports, OneToOne(f)
             PROVE  /\ \A c \in EndConnections(f, p) : ConnectionEnd(f, p, c)
                    /\ \A k \in EndCores(f, p) : CoreEnd(f, p, k)
                    /\ EndConnections(f, p) = {} /\ EndCores(f, p) = {} => At(f, p) = 0 /\ Busy(f, p) = 0
  BY DEF EndsOfOneUser
<1>1. \A c \in EndConnections(f, p) : EndCores(f, p) = {} /\ c = CHOOSE d \in EndConnections(f, p) : TRUE
  BY DEF OneToOne, AtMostOne
<1>2. \A k \in EndCores(f, p) : EndConnections(f, p) = {} /\ k = CHOOSE j \in EndCores(f, p) : TRUE
  BY DEF OneToOne, AtMostOne
<1>3. ASSUME NEW c \in EndConnections(f, p) PROVE ConnectionEnd(f, p, c)
  BY <1>1, <1>3 DEF At, Busy, ConnectionEnd
<1>4. ASSUME NEW k \in EndCores(f, p) PROVE CoreEnd(f, p, k)
  BY <1>2, <1>4 DEF At, Busy, CoreEnd
<1>5. EndConnections(f, p) = {} /\ EndCores(f, p) = {} => At(f, p) = 0 /\ Busy(f, p) = 0
  BY DEF At, Busy
<1> QED BY <1>3, <1>4, <1>5

LEMMA EndsNext == EndsOfOneUser'
  BY EndsAt, PTL

\* The descriptor a channel is at.
LEMMA DescriptorAt ==
  design \in Designs /\ Image /\ Engines =>
    \A ch \in Channels : \E n \in Nat \ {0} :
      LET D == design.depth[ch[2]]
          j == channel[ch].at - 1
      IN  /\ D \in Nat \ {0} /\ j \in 0 .. D * n - 1 /\ Len(image.rings[ch]) = D * n
          /\ \A i \in 1 .. D * n : image.rings[ch][i].fifo = ch[2] /\ image.rings[ch][i].buffer = (i - 1) \div n
          /\ Descriptor(ch).fifo = ch[2] /\ Descriptor(ch).buffer = j \div n
          /\ Descriptor(ch).buffer \in 0 .. D - 1
          /\ OneToOne(ch[2]) => /\ \A i \in 1 .. D * n :
                                     image.rings[ch][i].acquire = IF (i - 1) % n = 0 THEN 1 ELSE 0
                                /\ Descriptor(ch).acquire = IF j % n = 0 THEN 1 ELSE 0
                                /\ Descriptor(ch).release = IF j % n = n - 1 THEN 1 ELSE 0
<1> SUFFICES ASSUME design \in Designs, Image, Engines, NEW ch \in Channels
             PROVE  \E n \in Nat \ {0} :
      LET D == design.depth[ch[2]]
          j == channel[ch].at - 1
      IN  /\ D \in Nat \ {0} /\ j \in 0 .. D * n - 1 /\ Len(image.rings[ch]) = D * n
          /\ \A i \in 1 .. D * n : image.rings[ch][i].fifo = ch[2] /\ image.rings[ch][i].buffer = (i - 1) \div n
          /\ Descriptor(ch).fifo = ch[2] /\ Descriptor(ch).buffer = j \div n
          /\ Descriptor(ch).buffer \in 0 .. D - 1
          /\ OneToOne(ch[2]) => /\ \A i \in 1 .. D * n :
                                     image.rings[ch][i].acquire = IF (i - 1) % n = 0 THEN 1 ELSE 0
                                /\ Descriptor(ch).acquire = IF j % n = 0 THEN 1 ELSE 0
                                /\ Descriptor(ch).release = IF j % n = n - 1 THEN 1 ELSE 0
  OBVIOUS
<1>1. PICK n \in Nat \ {0} : RingOf(ch, n)
  BY DEF Image
<1> DEFINE D == design.depth[ch[2]]
           j == channel[ch].at - 1
<1>2. D \in Nat \ {0}
  BY ChannelFacts, DesignFacts
<1>3. channel[ch].at \in 1 .. D * n /\ Len(image.rings[ch]) = D * n
  BY <1>1 DEF Engines, RingOf
<1>4. j \in 0 .. D * n - 1
  BY <1>2, <1>3
<1> HIDE DEF D
<1>5. j \div n \in 0 .. D - 1
  BY <1>2, <1>4, DescriptorNext
<1>6. /\ \A i \in 1 .. D * n : image.rings[ch][i].fifo = ch[2] /\ image.rings[ch][i].buffer = (i - 1) \div n
      /\ OneToOne(ch[2]) => \A i \in 1 .. D * n :
           /\ image.rings[ch][i].acquire = IF (i - 1) % n = 0 THEN 1 ELSE 0
           /\ image.rings[ch][i].release = IF (i - 1) % n = n - 1 THEN 1 ELSE 0
  BY <1>1 DEF RingOf, D
<1>7. /\ Descriptor(ch).fifo = ch[2] /\ Descriptor(ch).buffer = j \div n
      /\ OneToOne(ch[2]) => /\ Descriptor(ch).acquire = IF j % n = 0 THEN 1 ELSE 0
                            /\ Descriptor(ch).release = IF j % n = n - 1 THEN 1 ELSE 0
  BY <1>3, <1>6 DEF Descriptor
<1> QED BY <1>2, <1>3, <1>4, <1>5, <1>6, <1>7 DEF D

\* What the text of a core keeps, at every instruction.
LEMMA CoreAt ==
  design \in Designs /\ Image =>
    \A f \in Fifos : OneToOne(f) => \A k \in Cores, p \in Ports : \A n \in 0 .. Len(image.code[k]) :
      /\ Taken(k, f, p, n) \in Nat /\ Given(k, f, p, n) \in Nat
      /\ Taken(k, f, p, n) - Given(k, f, p, n) \in {0, 1}
      /\ Given(k, f, p, n) % design.depth[f] \in 0 .. design.depth[f] - 1
<1> SUFFICES ASSUME design \in Designs, Image, NEW f \in Fifos, OneToOne(f), NEW k \in Cores, NEW p \in Ports,
                    NEW n \in 0 .. Len(image.code[k])
             PROVE  /\ Taken(k, f, p, n) \in Nat /\ Given(k, f, p, n) \in Nat
                    /\ Taken(k, f, p, n) - Given(k, f, p, n) \in {0, 1}
                    /\ Given(k, f, p, n) % design.depth[f] \in 0 .. design.depth[f] - 1
  OBVIOUS
<1>1. n \in Nat
  BY DEF Image, TextOf
<1>2. Taken(k, f, p, n) \in Nat /\ Given(k, f, p, n) \in Nat
  BY <1>1, CountFacts DEF Taken, Given
<1>3. Taken(k, f, p, n) - Given(k, f, p, n) \in {0, 1}
  BY DEF Image, CoresInStep, InStep
<1>4. design.depth[f] \in Nat \ {0}
  BY DesignFacts
<1> QED BY <1>2, <1>3, <1>4

EndsInRange ==
  design \in Designs /\ Image /\ Engines =>
    \A f \in Fifos, p \in Ports : OneToOne(f) =>
      At(f, p) \in 0 .. design.depth[f] - 1 /\ Busy(f, p) \in {0, 1}

LEMMA EndRange == EndsInRange
<1> SUFFICES ASSUME design \in Designs, Image, Engines, NEW f \in Fifos, NEW p \in Ports, OneToOne(f)
             PROVE  At(f, p) \in 0 .. design.depth[f] - 1 /\ Busy(f, p) \in {0, 1}
  BY DEF EndsInRange
<1>0. design.depth[f] \in Nat \ {0}
  BY DesignFacts
<1>1. ASSUME NEW c \in EndConnections(f, p) PROVE At(f, p) \in 0 .. design.depth[f] - 1 /\ Busy(f, p) \in {0, 1}
  <2>1. <<c, f>> \in Channels
    BY ChannelFacts
  <2>2. Descriptor(<<c, f>>).buffer \in 0 .. design.depth[f] - 1
    BY <2>1, DescriptorAt
  <2> QED BY <2>2, EndsAt DEF EndsOfOneUser, ConnectionEnd
<1>2. ASSUME NEW k \in EndCores(f, p) PROVE At(f, p) \in 0 .. design.depth[f] - 1 /\ Busy(f, p) \in {0, 1}
  <2>1. k \in Cores
    BY DEF EndCores
  <2>2. core[k].pc - 1 \in 0 .. Len(image.code[k])
    BY <2>1 DEF Engines, Image, TextOf
  <2> QED BY <2>1, <2>2, CoreAt, EndsAt DEF EndsOfOneUser, CoreEnd
<1>3. EndConnections(f, p) = {} /\ EndCores(f, p) = {} => At(f, p) = 0 /\ Busy(f, p) = 0
  BY EndsAt DEF EndsOfOneUser
<1> QED BY <1>0, <1>1, <1>2, <1>3

---------------------------------------------------------------------------
(* What stays once a design is loaded                                      *)

LEMMA DesignKept ==
  ASSUME design' = design
  PROVE  /\ Fifos' = Fifos /\ Connections' = Connections /\ Cores' = Cores
         /\ SourceChannels' = SourceChannels /\ TargetChannels' = TargetChannels /\ Channels' = Channels
         /\ \A f, p : EndConnections(f, p)' = EndConnections(f, p) /\ EndCores(f, p)' = EndCores(f, p)
         /\ \A f : OneToOne(f)' <=> OneToOne(f)
         /\ \A f : producerLockInitValue(f)' = producerLockInitValue(f)
<1>1. Fifos' = Fifos /\ Connections' = Connections /\ Cores' = Cores
  BY DEF Fifos, Connections, Cores
<1>2. SourceChannels' = SourceChannels /\ TargetChannels' = TargetChannels
  BY <1>1 DEF SourceChannels, TargetChannels
<1>3. \A f : CopyLikeProducers(f)' = CopyLikeProducers(f) /\ CopyLikeConsumers(f)' = CopyLikeConsumers(f)
  BY <1>1 DEF CopyLikeProducers, CopyLikeConsumers
<1>4. \A f, p : EndConnections(f, p)' = EndConnections(f, p) /\ EndCores(f, p)' = EndCores(f, p)
  BY <1>1, <1>3 DEF EndConnections, EndCores
<1>5. \A f : OneToOne(f)' <=> OneToOne(f)
  BY <1>4 DEF OneToOne
<1>6. \A f : producerLockInitValue(f)' = producerLockInitValue(f)
  BY <1>3 DEF producerLockInitValue
<1> QED BY <1>1, <1>2, <1>4, <1>5, <1>6 DEF Channels

LEMMA TextKept ==
  ASSUME image' = image
  PROVE  \A k, f, p, n : Taken(k, f, p, n)' = Taken(k, f, p, n) /\ Given(k, f, p, n)' = Given(k, f, p, n)
<1>1. \A k, op, f, p, n : Instructions(k, op, f, p, n)' = Instructions(k, op, f, p, n)
  BY DEF Instructions
<1> QED BY <1>1 DEF Taken, Given

LEMMA ImageKept ==
  ASSUME design' = design, image' = image
  PROVE  Image' <=> Image
<1>1. \A ch, n : RingOf(ch, n)' <=> RingOf(ch, n)
  BY DesignKept DEF RingOf
<1>2. \A k : TextOf(k)' <=> TextOf(k)
  BY DesignKept DEF TextOf
<1>3. \A k, op, f, p, n : Instructions(k, op, f, p, n)' = Instructions(k, op, f, p, n)
  BY DEF Instructions
<1>4. \A f : InStep(f)' <=> InStep(f)
  BY <1>3, TextKept, DesignKept DEF InStep
<1>5. CoresInStep' <=> CoresInStep
  BY <1>4, DesignKept DEF CoresInStep
<1>6. (\A ch \in Channels : \E n \in Nat \ {0} : RingOf(ch, n))'
        <=> \A ch \in Channels : \E n \in Nat \ {0} : RingOf(ch, n)
  BY <1>1, DesignKept
<1>7. (\A k \in Cores : TextOf(k))' <=> \A k \in Cores : TextOf(k)
  BY <1>2, DesignKept
<1> QED BY <1>5, <1>6, <1>7 DEF Image

---------------------------------------------------------------------------
(* Loading                                                                 *)

\* The rings the lowering builds.
LEMMA RingShape ==
  ASSUME design \in Designs, NEW ch \in Channels, NEW blocks \in Seq(Nat), blocks # <<>>
  PROVE  LET ring == connectionToAIE(ch, blocks)
             n == Len(blocks)
             f == ch[2]
         IN  /\ n \in Nat \ {0} /\ Len(ring) = design.depth[f] * n
             /\ \A i \in 1 .. design.depth[f] * n :
                  /\ ring[i].fifo = f /\ ring[i].buffer = (i - 1) \div n
                  /\ OneToOne(f) => /\ ring[i].acquire = IF (i - 1) % n = 0 THEN 1 ELSE 0
                                    /\ ring[i].release = IF (i - 1) % n = n - 1 THEN 1 ELSE 0
<1> DEFINE ring == connectionToAIE(ch, blocks)
           n == Len(blocks)
           f == ch[2]
           D == design.depth[f]
<1>1. f \in Fifos /\ D \in Nat \ {0}
  BY ChannelFacts, DesignFacts
<1>2. n \in Nat \ {0}
  OBVIOUS
<1>3. PICK units : ring = createDMABlocks(f, blocks, units) /\ (OneToOne(f) => units = 1)
  <2>1. CASE ch \in SourceChannels
    <3>1. ring = createDMABlocks(f, blocks, AcqNum(CopyLikeConsumers(f), CopyLikeProducers(f)))
      BY <2>1 DEF connectionToAIE, SourceRing
    <3>2. EndConnections(f, "Consume") # {}
      BY <2>1, ChannelFacts
    <3>3. OneToOne(f) => AcqNum(CopyLikeConsumers(f), CopyLikeProducers(f)) = 1
      BY <3>2, <1>1, OneUnit DEF EndConnections, Ports
    <3> QED BY <3>1, <3>3
  <2>2. CASE ch \notin SourceChannels
    <3>1. ring = createDMABlocks(f, blocks, AcqNum(CopyLikeProducers(f), CopyLikeConsumers(f)))
      BY <2>2 DEF connectionToAIE, TargetRing
    <3>2. EndConnections(f, "Produce") # {}
      BY <2>2, ChannelFacts DEF Channels
    <3>3. OneToOne(f) => AcqNum(CopyLikeProducers(f), CopyLikeConsumers(f)) = 1
      BY <3>2, <1>1, OneUnit DEF EndConnections, Ports
    <3> QED BY <3>1, <3>3
  <2> QED BY <2>1, <2>2
<1>4. D * n \in Nat
  BY <1>1, <1>2
<1> HIDE DEF D, n, f, ring
<1>5. ring = [i \in 1 .. D * n |->
                [fifo |-> f, buffer |-> (i - 1) \div n, block |-> blocks[((i - 1) % n) + 1],
                 acquire |-> IF (i - 1) % n = 0 THEN units ELSE 0,
                 release |-> IF (i - 1) % n = n - 1 THEN units ELSE 0]]
  BY <1>3 DEF createDMABlocks, D, n
<1>6. Len(ring) = D * n
  BY <1>4, <1>5
<1>7. \A i \in 1 .. D * n :
        /\ ring[i].fifo = f /\ ring[i].buffer = (i - 1) \div n
        /\ ring[i].acquire = (IF (i - 1) % n = 0 THEN units ELSE 0)
        /\ ring[i].release = (IF (i - 1) % n = n - 1 THEN units ELSE 0)
  BY <1>5
<1> QED BY <1>2, <1>3, <1>6, <1>7 DEF D, n, f, ring

LEMMA LoadsImage ==
  ASSUME design \in Designs, Loads
  PROVE  Image' /\ Engines'
<1> PICK blocks, code : IsImage(blocks, code) /\ Load(blocks, code) /\ CoresInStep'
  BY DEF Loads
<1>0. /\ design' = design
      /\ image' = [rings |-> [ch \in Channels |-> connectionToAIE(ch, blocks[ch])], code |-> code]
  BY DEF Load
<1>1. ASSUME NEW ch \in Channels PROVE \E n \in Nat \ {0} : RingOf(ch, n)'
  <2> DEFINE n == Len(blocks[ch])
  <2>1. blocks[ch] \in Seq(Nat) /\ blocks[ch] # <<>>
    BY DEF IsImage
  <2>2. image'.rings[ch] = connectionToAIE(ch, blocks[ch])
    BY <1>0
  <2>3. n \in Nat \ {0} /\ RingOf(ch, n)'
    BY <2>1, <2>2, RingShape, DesignKept, <1>0 DEF RingOf
  <2> QED BY <2>3
<1>2. ASSUME NEW k \in Cores PROVE TextOf(k)'
  BY <1>0, DesignKept DEF TextOf, IsImage
<1>3. Image'
  BY <1>0, <1>1, <1>2, DesignKept DEF Image
<1>4. \A f \in Fifos : design.depth[f] \in Nat \ {0}
  BY DesignFacts
<1>5. ASSUME NEW ch \in Channels PROVE channel'[ch].at \in 1 .. Len(image'.rings[ch])
  <2>1. PICK n \in Nat \ {0} : RingOf(ch, n)'
    BY <1>1
  <2>2. design.depth[ch[2]] * n \in Nat \ {0}
    BY <1>4, ChannelFacts
  <2>3. Len(image'.rings[ch]) = design.depth[ch[2]] * n
    BY <2>1, <1>0 DEF RingOf
  <2>4. channel'[ch].at = 1
    BY DEF Load
  <2> QED BY <2>2, <2>3, <2>4
<1>6. \A k \in Cores : /\ DOMAIN core'[k] = {"pc", "held", "read"} /\ DOMAIN core'[k].held = Fifos
                       /\ core'[k].pc \in 1 .. Len(image'.code[k])
  BY <1>2, <1>0 DEF Load, TextOf
<1>7. Engines'
  <2>1. DOMAIN producer' = Fifos /\ DOMAIN consumer' = Fifos
    BY DEF Load
  <2>2. DOMAIN buffer' = Fifos /\ \A f \in Fifos : DOMAIN buffer'[f] = 0 .. design.depth[f] - 1
    BY DEF Load
  <2>3. channel' \in [Channels -> [at : Nat, moving : BOOLEAN]]
    BY DEF Load
  <2>4. DOMAIN core' = Cores
    BY DEF Load
  <2> QED BY <2>1, <2>2, <2>3, <2>4, <1>0, <1>5, <1>6, DesignKept DEF Engines
<1> QED BY <1>3, <1>7

\* The counts of a text before its first instruction.
LEMMA NothingCounted == \A k, f, p : Taken(k, f, p, 0) = 0 /\ Given(k, f, p, 0) = 0
<1>1. 1 \in Nat \ {0}
  OBVIOUS
<1> QED BY <1>1, TextStep

LEMMA NothingCountedNext == (\A k, f, p : Taken(k, f, p, 0) = 0 /\ Given(k, f, p, 0) = 0)'
  BY NothingCounted, PTL

LEMMA LoadsFifo ==
  ASSUME design \in Designs, Loads, NEW f \in Fifos, OneToOne(f)
  PROVE  FifoInv(f)'
<1> PICK blocks, code : IsImage(blocks, code) /\ Load(blocks, code) /\ CoresInStep'
  BY DEF Loads
<1> DEFINE D == design.depth[f]
<1>0. design' = design /\ D \in Nat \ {0}
  BY DesignFacts DEF Load
<1>1. Image' /\ Engines' /\ OneToOne(f)' /\ f \in Fifos'
  BY LoadsImage, DesignKept, <1>0
<1>2. \A k \in Cores : core'[k].pc - 1 = 0
  BY DEF Load
<1>3. ASSUME NEW p \in Ports, NEW c \in EndConnections(f, p) PROVE At(f, p)' = 0 /\ Busy(f, p)' = 0
  <2> DEFINE ch == <<c, f>>
  <2>1. ch \in Channels
    BY ChannelFacts
  <2>2. channel'[ch] = [at |-> 1, moving |-> FALSE]
    BY <2>1 DEF Load
  <2>3. PICK n \in Nat \ {0} : RingOf(ch, n)'
    BY <1>1, <2>1, <1>0, DesignKept DEF Image
  <2>4. 1 \in 1 .. D * n
    <3>1. D * n \in Nat \ {0}
      BY <1>0
    <3> QED BY <3>1
  <2>5. 0 \div n = 0 /\ 0 % n = 0
    OBVIOUS
  <2> HIDE DEF ch
  <2>6. ch[2] = f
    BY DEF ch
  <2>7. image'.rings[ch][1].buffer = 0 /\ image'.rings[ch][1].acquire = 1
    BY <2>3, <2>4, <2>5, <2>6, <1>0, <1>1 DEF RingOf
  <2>8. Descriptor(ch)' = image'.rings[ch][1]
    BY <2>2 DEF Descriptor
  <2>9. ConnectionEnd(f, p, c)'
    BY EndsNext, <1>1, <1>3, <1>0, DesignKept DEF EndsOfOneUser
  <2> QED BY <2>2, <2>7, <2>8, <2>9 DEF ConnectionEnd, ch
<1>4. ASSUME NEW p \in Ports, NEW k \in EndCores(f, p) PROVE At(f, p)' = 0 /\ Busy(f, p)' = 0
  <2>1. k \in Cores
    BY DEF EndCores
  <2>2. CoreEnd(f, p, k)'
    BY EndsNext, <1>1, <1>4, <1>0, DesignKept DEF EndsOfOneUser
  <2>3. 0 % D = 0
    BY <1>0
  <2> QED BY <2>1, <2>2, <2>3, <1>0, <1>2, NothingCountedNext DEF CoreEnd
<1>5. \A p \in Ports : At(f, p)' = 0 /\ Busy(f, p)' = 0
  BY <1>3, <1>4, EndsNext, <1>1, <1>0, DesignKept DEF EndsOfOneUser
<1>6. producer'[f] = producerLockInitValue(f) /\ consumer'[f] = 0
  BY DEF Load
<1>7. producerLockInitValue(f) \in {0, D}
  BY <1>0, OneUnit
<1>8. Units(f)'
  BY <1>0, <1>5, <1>6, <1>7, DesignKept DEF Units, Ports
<1>9. InTurn(f)'
  BY <1>0, <1>5, <1>6 DEF InTurn, Filled, Ports
<1>10. HeldBuffer(f)'
  <2>1. \A k \in Cores, p \in Ports : ~Holds(k, f, p)'
    BY <1>2, NothingCountedNext DEF Holds
  <2> QED BY <2>1, <1>0, DesignKept DEF HeldBuffer
<1> QED BY <1>8, <1>9, <1>10 DEF FifoInv

---------------------------------------------------------------------------
(* The moves of a fifo                                                     *)

Rests(f, p) == At(f, p)' = At(f, p) /\ Busy(f, p)' = Busy(f, p)
Takes(f, p) == Busy(f, p) = 0 /\ Busy(f, p)' = 1 /\ At(f, p)' = At(f, p)
Gives(f, p) == Busy(f, p) = 1 /\ Busy(f, p)' = 0 /\ At(f, p)' = Succ(design.depth[f], At(f, p))

Locks(f, add, remove) == producer'[f] = producer[f] + add /\ consumer'[f] = consumer[f] + remove

\* Only the buffer the producer is at may change.
OnlyAtProducer(f) ==
  \A b \in 0 .. design.depth[f] - 1 : b # At(f, "Produce") => buffer'[f][b] = buffer[f][b]

Stays(f) ==
  /\ Rests(f, "Produce") /\ Rests(f, "Consume") /\ Locks(f, 0, 0)
  /\ buffer'[f] = buffer[f] \/ (Busy(f, "Produce") = 1 /\ OnlyAtProducer(f))
StartsWrite(f) ==
  /\ producer[f] >= 1 /\ Takes(f, "Produce") /\ Rests(f, "Consume") /\ Locks(f, -1, 0)
  /\ OnlyAtProducer(f)
EndsWrite(f) ==
  /\ Gives(f, "Produce") /\ Rests(f, "Consume") /\ Locks(f, 0, 1)
  /\ OnlyAtProducer(f)
StartsRead(f) ==
  /\ consumer[f] >= 1 /\ Takes(f, "Consume") /\ Rests(f, "Produce") /\ Locks(f, 0, -1)
  /\ buffer'[f] = buffer[f]
EndsRead(f) ==
  /\ Gives(f, "Consume") /\ Rests(f, "Produce") /\ Locks(f, 1, 0)
  /\ buffer'[f] = buffer[f]

Moved(f) == Stays(f) \/ StartsWrite(f) \/ EndsWrite(f) \/ StartsRead(f) \/ EndsRead(f)

\* What the invariant bounds.
LEMMA FifoBounds ==
  ASSUME design \in Designs, Image, Engines, NEW f \in Fifos, OneToOne(f), Units(f)
  PROVE  /\ design.depth[f] \in Nat \ {0}
         /\ producer[f] \in Nat /\ consumer[f] \in Nat
         /\ At(f, "Produce") \in 0 .. design.depth[f] - 1 /\ At(f, "Consume") \in 0 .. design.depth[f] - 1
         /\ Busy(f, "Produce") \in {0, 1} /\ Busy(f, "Consume") \in {0, 1}
         /\ Filled(f) \in Nat /\ Filled(f) + Busy(f, "Produce") + producer[f] <= design.depth[f]
<1>1. design.depth[f] \in Nat \ {0}
  BY DesignFacts
<1>2. producerLockInitValue(f) \in {0, design.depth[f]}
  BY <1>1, OneUnit
<1>3. /\ At(f, "Produce") \in 0 .. design.depth[f] - 1 /\ At(f, "Consume") \in 0 .. design.depth[f] - 1
      /\ Busy(f, "Produce") \in {0, 1} /\ Busy(f, "Consume") \in {0, 1}
  BY EndRange DEF Ports, EndsInRange
<1>4. producer[f] \in Nat /\ consumer[f] \in Nat
  BY DEF Units
<1>5. producer[f] + Busy(f, "Produce") + consumer[f] + Busy(f, "Consume") <= design.depth[f]
  BY <1>1, <1>2 DEF Units
<1>6. Filled(f) \in Nat /\ Filled(f) = consumer[f] + Busy(f, "Consume")
  BY <1>3, <1>4 DEF Filled
<1>7. Filled(f) + Busy(f, "Produce") + producer[f] <= design.depth[f]
  BY <1>1, <1>3, <1>4, <1>5, <1>6
<1> QED BY <1>1, <1>3, <1>4, <1>6, <1>7

\* The moves keep the units together and the producer ahead of the consumer.
LEMMA MovedKeeps ==
  ASSUME design \in Designs, Image, Engines, NEW f \in Fifos, OneToOne(f), Units(f), InTurn(f),
         design' = design, Moved(f)
  PROVE  Units(f)' /\ InTurn(f)'
<1> DEFINE D == design.depth[f]
<1>1. producerLockInitValue(f)' = producerLockInitValue(f)
  BY DesignKept
<1>2. CASE Stays(f)
  BY <1>1, <1>2, FifoBounds DEF Stays, Rests, Locks, Units, InTurn, Filled
<1>3. CASE StartsWrite(f)
  BY <1>1, <1>3, FifoBounds DEF StartsWrite, Takes, Rests, Locks, Units, InTurn, Filled
<1>4. CASE EndsWrite(f)
  BY <1>1, <1>4, FifoBounds DEF EndsWrite, Gives, Rests, Locks, Units, InTurn, Filled, Succ
<1>5. CASE StartsRead(f)
  BY <1>1, <1>5, FifoBounds DEF StartsRead, Takes, Rests, Locks, Units, InTurn, Filled
<1>6. CASE EndsRead(f)
  <2>1. /\ D \in Nat \ {0} /\ D' = D
        /\ producer[f] \in Nat /\ consumer[f] \in Nat
        /\ At(f, "Produce") \in 0 .. D - 1 /\ At(f, "Consume") \in 0 .. D - 1
        /\ Busy(f, "Produce") \in {0, 1}
        /\ Filled(f) = consumer[f] + Busy(f, "Consume") /\ Filled(f) <= D
    BY FifoBounds DEF Filled
  <2>2. /\ Busy(f, "Consume") = 1 /\ Busy(f, "Consume")' = 0
        /\ At(f, "Consume")' = IF At(f, "Consume") + 1 = D THEN 0 ELSE At(f, "Consume") + 1
        /\ At(f, "Produce")' = At(f, "Produce") /\ Busy(f, "Produce")' = Busy(f, "Produce")
        /\ producer'[f] = producer[f] + 1 /\ consumer'[f] = consumer[f] + 0
    BY <1>6 DEF EndsRead, Gives, Rests, Locks, Succ
  <2>3. Units(f)'
    BY <1>1, <2>1, <2>2 DEF Units
  <2>4. At(f, "Produce") \in {At(f, "Consume") + Filled(f), At(f, "Consume") + Filled(f) - D}
    BY DEF InTurn
  <2>5. Filled(f)' = Filled(f) - 1
    BY <2>1, <2>2 DEF Filled
  <2> HIDE DEF D
  <2>6. At(f, "Produce")' \in {At(f, "Consume")' + Filled(f)', At(f, "Consume")' + Filled(f)' - D}
    BY <2>1, <2>2, <2>4, <2>5
  <2> QED BY <2>1, <2>3, <2>6 DEF InTurn, D
<1> QED BY <1>2, <1>3, <1>4, <1>5, <1>6 DEF Moved

---------------------------------------------------------------------------
(* One end of a fifo in a step                                             *)

LEMMA EndRests ==
  ASSUME design' = design, image' = image, NEW f, NEW p \in Ports, OneToOne(f),
         \A c \in EndConnections(f, p) : channel'[<<c, f>>] = channel[<<c, f>>],
         \A k \in EndCores(f, p) : core'[k].pc = core[k].pc
  PROVE  Rests(f, p)
<1>1. EndConnections(f, p)' = EndConnections(f, p) /\ EndCores(f, p)' = EndCores(f, p) /\ OneToOne(f)'
  BY DesignKept
<1>2. ASSUME NEW c \in EndConnections(f, p) PROVE Rests(f, p)
  <2>1. ConnectionEnd(f, p, c) /\ ConnectionEnd(f, p, c)'
    BY <1>1, EndsAt, EndsNext DEF EndsOfOneUser
  <2>2. Descriptor(<<c, f>>)' = Descriptor(<<c, f>>)
    BY DEF Descriptor
  <2> QED BY <2>1, <2>2 DEF ConnectionEnd, Rests
<1>3. ASSUME NEW k \in EndCores(f, p) PROVE Rests(f, p)
  <2>1. CoreEnd(f, p, k) /\ CoreEnd(f, p, k)'
    BY <1>1, EndsAt, EndsNext DEF EndsOfOneUser
  <2> QED BY <2>1, TextKept DEF CoreEnd, Rests
<1>4. CASE EndConnections(f, p) = {} /\ EndCores(f, p) = {}
  BY <1>1, <1>4, EndsAt, EndsNext DEF EndsOfOneUser, Rests
<1> QED BY <1>2, <1>3, <1>4

\* A channel starts its descriptor.
LEMMA ChannelStarts ==
  ASSUME design \in Designs, Image, Engines, design' = design, image' = image,
         NEW f \in Fifos, NEW p \in Ports, OneToOne(f), NEW c \in EndConnections(f, p),
         ~channel[<<c, f>>].moving,
         channel'[<<c, f>>].at = channel[<<c, f>>].at, channel'[<<c, f>>].moving = TRUE
  PROVE  /\ Descriptor(<<c, f>>).acquire \in {0, 1}
         /\ Descriptor(<<c, f>>).acquire = 1 => Takes(f, p)
         /\ Descriptor(<<c, f>>).acquire = 0 => Rests(f, p) /\ Busy(f, p) = 1
<1>1. ConnectionEnd(f, p, c) /\ ConnectionEnd(f, p, c)'
  BY DesignKept, EndsAt, EndsNext DEF EndsOfOneUser
<1>2. Descriptor(<<c, f>>)' = Descriptor(<<c, f>>)
  BY DEF Descriptor
<1>3. <<c, f>> \in Channels
  BY ChannelFacts
<1>4. Descriptor(<<c, f>>).acquire \in {0, 1}
  BY <1>3, DescriptorAt
<1> QED BY <1>1, <1>2, <1>4 DEF ConnectionEnd, Takes, Rests

\* A channel is done with its descriptor.
LEMMA ChannelAdvances ==
  ASSUME design \in Designs, Image, Engines, design' = design, image' = image,
         NEW f \in Fifos, NEW p \in Ports, OneToOne(f), NEW c \in EndConnections(f, p),
         channel[<<c, f>>].moving, Advance(<<c, f>>)
  PROVE  /\ Descriptor(<<c, f>>).release \in {0, 1} /\ Busy(f, p) = 1
         /\ Descriptor(<<c, f>>).release = 1 => Gives(f, p)
         /\ Descriptor(<<c, f>>).release = 0 => Rests(f, p)
<1> DEFINE ch == <<c, f>>
           D == design.depth[f]
           j == channel[ch].at - 1
<1>1. ConnectionEnd(f, p, c) /\ ConnectionEnd(f, p, c)'
  BY DesignKept, EndsAt, EndsNext DEF EndsOfOneUser
<1>2. ch \in Channels /\ ch[2] = f
  BY ChannelFacts
<1>3. PICK n \in Nat \ {0} :
        /\ D \in Nat \ {0} /\ j \in 0 .. D * n - 1 /\ Len(image.rings[ch]) = D * n
        /\ \A i \in 1 .. D * n : /\ image.rings[ch][i].buffer = (i - 1) \div n
                                 /\ image.rings[ch][i].acquire = IF (i - 1) % n = 0 THEN 1 ELSE 0
        /\ Descriptor(ch).buffer = j \div n
        /\ Descriptor(ch).release = IF j % n = n - 1 THEN 1 ELSE 0
  BY <1>2, DescriptorAt
<1> DEFINE m == IF j + 1 = D * n THEN 0 ELSE j + 1
<1>4. channel'[ch] = [at |-> (channel[ch].at % Len(image.rings[ch])) + 1, moving |-> FALSE]
  BY <1>2 DEF Advance, Engines
<1>5. channel[ch].at = j + 1 /\ j + 1 \in 1 .. D * n /\ D * n \in Nat \ {0}
  <2>1. channel[ch].at \in 1 .. D * n
    BY <1>2, <1>3 DEF Engines
  <2>2. D * n \in Nat
    BY <1>3
  <2> HIDE DEF D
  <2> QED BY <2>1, <2>2
<1>6. (j + 1) % (D * n) = m
  <2> HIDE DEF D, j
  <2> DEFINE s == D * n
  <2>1. s \in Nat \ {0} /\ j + 1 \in 1 .. s
    BY <1>5
  <2> HIDE DEF s
  <2>2. s % s = 0 /\ (j + 1 < s => (j + 1) % s = j + 1)
    BY <2>1
  <2> QED BY <2>1, <2>2 DEF s
<1>7. channel'[ch].at = m + 1 /\ ~channel'[ch].moving /\ m + 1 \in 1 .. D * n
  <2>1. channel'[ch].at = m + 1 /\ ~channel'[ch].moving
    BY <1>3, <1>4, <1>5, <1>6
  <2>2. m + 1 \in 1 .. D * n
    <3> HIDE DEF D, j
    <3> DEFINE s == D * n
    <3>1. s \in Nat \ {0} /\ j + 1 \in 1 .. s
      BY <1>5
    <3> HIDE DEF s
    <3>2. (IF j + 1 = s THEN 0 ELSE j + 1) + 1 \in 1 .. s
      BY <3>1
    <3> QED BY <3>2 DEF s
  <2> QED BY <2>1, <2>2
<1>8. /\ Descriptor(ch)'.buffer = m \div n
      /\ Descriptor(ch)'.acquire = IF m % n = 0 THEN 1 ELSE 0
  <2>1. Descriptor(ch)' = image.rings[ch][m + 1]
    BY <1>7 DEF Descriptor
  <2> HIDE DEF m, D, j, ch
  <2>2. m \in Int
    BY <1>5 DEF m, D, j
  <2>3. (m + 1) - 1 = m
    BY <2>2
  <2>4. /\ image.rings[ch][m + 1].buffer = ((m + 1) - 1) \div n
        /\ image.rings[ch][m + 1].acquire = IF ((m + 1) - 1) % n = 0 THEN 1 ELSE 0
    BY <1>3, <1>7
  <2> QED BY <2>1, <2>3, <2>4
<1>9. /\ j % n # n - 1 => m % n # 0 /\ m \div n = j \div n
      /\ j % n = n - 1 => m % n = 0 /\ m \div n = Succ(D, j \div n)
  BY <1>3, DescriptorNext
<1>10. Busy(f, p) = 1 /\ At(f, p) = j \div n
  BY <1>1, <1>3 DEF ConnectionEnd
<1>11. At(f, p)' = m \div n /\ Busy(f, p)' = IF m % n = 0 THEN 0 ELSE 1
  <2> HIDE DEF m, D, j
  <2> QED BY <1>1, <1>7, <1>8 DEF ConnectionEnd
<1> HIDE DEF m, j, D
<1>12. Descriptor(ch).release = 1 => Gives(f, p)
  BY <1>3, <1>9, <1>10, <1>11 DEF Gives, D
<1>13. Descriptor(ch).release = 0 => Rests(f, p)
  BY <1>3, <1>9, <1>10, <1>11 DEF Rests
<1> QED BY <1>3, <1>10, <1>12, <1>13 DEF ch

\* A core is done with an instruction.
LEMMA CoreAdvances ==
  ASSUME design \in Designs, Image, Engines, design' = design, image' = image,
         NEW f \in Fifos, NEW p \in Ports, OneToOne(f), NEW k \in EndCores(f, p),
         core'[k].pc = NextPc(k)
  PROVE  LET i == Instruction(k)
             mine == i.fifo = f /\ i.port = p
         IN  /\ mine /\ i.op = "acquire" => Takes(f, p) /\ i.buffer = At(f, p)
             /\ mine /\ i.op = "release" => Gives(f, p)
             /\ ~mine => Rests(f, p)
<1> DEFINE i == Instruction(k)
           mine == i.fifo = f /\ i.port = p
           D == design.depth[f]
           n == core[k].pc
           size == Len(image.code[k])
           m == IF n = size THEN 0 ELSE n
           T(x) == Taken(k, f, p, x)
           G(x) == Given(k, f, p, x)
<1>1. k \in Cores /\ D \in Nat \ {0}
  BY DesignFacts DEF EndCores
<1>2. size \in Nat \ {0} /\ n \in 1 .. size /\ n \in Nat \ {0}
  BY <1>1 DEF Image, TextOf, Engines
<1>3. CoreEnd(f, p, k) /\ CoreEnd(f, p, k)'
  BY DesignKept, EndsAt, EndsNext DEF EndsOfOneUser
<1>4. core'[k].pc - 1 = m
  <2>1. core'[k].pc = (n % size) + 1
    BY DEF NextPc
  <2> HIDE DEF n, size
  <2>2. size % size = 0 /\ (n < size => n % size = n)
    BY <1>2
  <2> QED BY <1>2, <2>1, <2>2
<1>5. At(f, p) = G(n - 1) % D /\ Busy(f, p) = T(n - 1) - G(n - 1)
  <2>1. \A x : x = n - 1 => At(f, p) = G(x) % D /\ Busy(f, p) = T(x) - G(x)
    BY <1>3 DEF CoreEnd
  <2> QED BY <2>1
<1>6. At(f, p)' = G(m) % D /\ Busy(f, p)' = T(m) - G(m)
  <2>1. \A x : x = core'[k].pc - 1 => At(f, p)' = G(x) % D /\ Busy(f, p)' = T(x) - G(x)
    BY <1>3, TextKept DEF CoreEnd
  <2> QED BY <1>4, <2>1
<1>7. /\ T(n - 1) \in Nat /\ G(n - 1) \in Nat
      /\ T(n) = T(n - 1) + IF i.op = "acquire" /\ i.fifo = f /\ i.port = p THEN 1 ELSE 0
      /\ G(n) = G(n - 1) + IF i.op = "release" /\ i.fifo = f /\ i.port = p THEN 1 ELSE 0
  <2>1. \A x \in Nat \ {0} :
          LET a == image.code[k][x]
          IN  /\ T(x - 1) \in Nat /\ G(x - 1) \in Nat
              /\ T(x) = T(x - 1) + IF a.op = "acquire" /\ a.fifo = f /\ a.port = p THEN 1 ELSE 0
              /\ G(x) = G(x - 1) + IF a.op = "release" /\ a.fifo = f /\ a.port = p THEN 1 ELSE 0
    BY TextStep
  <2>2. i = image.code[k][n]
    BY DEF Instruction
  <2> HIDE DEF T, G, n, i
  <2> QED BY <1>2, <2>1, <2>2
<1>8. T(n) - G(n) \in {0, 1} /\ T(n - 1) - G(n - 1) \in {0, 1}
  <2>1. \A x \in 0 .. size : T(x) - G(x) \in {0, 1}
    BY <1>1, CoreAt
  <2> HIDE DEF T, G, n, size
  <2>2. n \in 0 .. size /\ n - 1 \in 0 .. size
    BY <1>2
  <2> QED BY <2>1, <2>2
<1>9. T(m) - G(m) = T(n) - G(n) /\ G(m) % D = G(n) % D
  <2>1. InStep(f)
    BY DEF Image, CoresInStep
  <2>2. T(size) = G(size) /\ G(size) % D = 0
    BY <2>1, <1>1 DEF InStep
  <2>3. T(0) = 0 /\ G(0) = 0 /\ 0 % D = 0
    BY <1>1, NothingCounted
  <2>4. G(size) \in Nat
    BY <1>2, CountFacts DEF Given
  <2> HIDE DEF T, G, n, size, D
  <2> QED BY <2>2, <2>3, <2>4
<1>10. i.op \in {"acquire", "release"}
  BY <1>1, <1>2 DEF Image, TextOf, Instruction
<1>11. mine /\ i.op = "acquire" => i.buffer = T(n - 1) % D
  <2>1. InStep(f)
    BY DEF Image, CoresInStep
  <2>2. mine /\ i.op = "acquire" => n \in Instructions(k, "acquire", f, p, size)
    BY <1>2 DEF Instructions, Instruction
  <2> QED BY <2>1, <2>2, <1>1 DEF InStep, Instruction
<1>12. G(n - 1) \in Nat => (G(n - 1) + 1) % D = Succ(D, G(n - 1) % D)
  BY <1>1, ModNext
<1> HIDE DEF T, G, n, size, D, i, m
<1>13. CASE mine /\ i.op = "acquire"
  <2>1. T(n) = T(n - 1) + 1 /\ G(n) = G(n - 1)
    BY <1>7, <1>13
  <2>2. T(n - 1) = G(n - 1)
    BY <2>1, <1>7, <1>8
  <2>3. Busy(f, p) = 0 /\ Busy(f, p)' = 1 /\ At(f, p)' = At(f, p)
    BY <2>1, <2>2, <1>5, <1>6, <1>7, <1>9
  <2> QED BY <2>2, <2>3, <1>5, <1>10, <1>11, <1>13 DEF Takes, i
<1>14. CASE mine /\ i.op = "release"
  <2>1. T(n) = T(n - 1) /\ G(n) = G(n - 1) + 1
    BY <1>7, <1>14
  <2>2. T(n - 1) = G(n - 1) + 1
    BY <2>1, <1>7, <1>8
  <2>3. Busy(f, p) = 1 /\ Busy(f, p)' = 0 /\ At(f, p)' = Succ(D, At(f, p))
    BY <2>1, <2>2, <1>5, <1>6, <1>7, <1>9, <1>12
  <2> QED BY <2>3, <1>10, <1>14 DEF Gives, i, D
<1>15. CASE ~mine
  <2>1. T(n) = T(n - 1) /\ G(n) = G(n - 1)
    BY <1>7, <1>15
  <2> QED BY <2>1, <1>5, <1>6, <1>9, <1>15 DEF Rests, i
<1> QED BY <1>10, <1>13, <1>14, <1>15 DEF i

\* The ends that have nothing to do with the channel or the core of a step.
LEMMA OtherChannel ==
  ASSUME design \in Designs, design' = design, image' = image, core' = core,
         NEW f \in Fifos, NEW p \in Ports, OneToOne(f),
         NEW ch \in Channels, \A d \in Channels \ {ch} : channel'[d] = channel[d],
         ~(ch[2] = f /\ ch[1] \in EndConnections(f, p))
  PROVE  Rests(f, p)
<1>1. ASSUME NEW c \in EndConnections(f, p) PROVE channel'[<<c, f>>] = channel[<<c, f>>]
  <2>1. <<c, f>> \in Channels /\ <<c, f>> # ch
    BY ChannelFacts
  <2> QED BY <2>1
<1> QED BY <1>1, EndRests

LEMMA CoreEnds ==
  ASSUME design \in Designs, Image, Engines, design' = design, image' = image, channel' = channel,
         NEW f \in Fifos, NEW p \in Ports, OneToOne(f), NEW k \in Cores,
         core'[k].pc = NextPc(k), \A j \in Cores \ {k} : core'[j] = core[j]
  PROVE  LET i == Instruction(k)
             mine == i.fifo = f /\ i.port = p
         IN  /\ mine /\ i.op = "acquire" => Takes(f, p) /\ i.buffer = At(f, p)
             /\ mine /\ i.op = "release" => Gives(f, p)
             /\ ~mine => Rests(f, p)
<1>1. CASE k \in EndCores(f, p)
  BY <1>1, CoreAdvances
<1>2. CASE k \notin EndCores(f, p)
  <2>1. Instruction(k).fifo = f /\ Instruction(k).port = p => k \in EndCores(f, p)
    BY DEF Image, Engines, TextOf, Instruction
  <2>2. \A j \in EndCores(f, p) : core'[j].pc = core[j].pc
    BY <1>2 DEF EndCores
  <2>3. Rests(f, p)
    BY <2>2, EndRests
  <2> QED BY <1>2, <2>1, <2>3
<1> QED BY <1>1, <1>2

---------------------------------------------------------------------------
(* Every step moves a fifo                                                 *)

LEMMA RunFrame == Run => design' = design /\ image' = image /\ stage = "run" /\ stage' = "run"
  BY DEF Run, ChannelStep, StartDescriptor, SendObject, ReceiveObject, CoreStep, AcquireRead, AcquireWrite,
         ReleaseRead, ReleaseWrite, ShimSend, ShimReceive

LEMMA ApartEnds ==
  ASSUME NEW f, OneToOne(f)
  PROVE  /\ \A c : ~(c \in EndConnections(f, "Produce") /\ c \in EndConnections(f, "Consume"))
         /\ \A k : ~(k \in EndCores(f, "Produce") /\ k \in EndCores(f, "Consume"))
  BY DEF OneToOne

LEMMA BufferChange ==
  ASSUME Engines, NEW f \in Fifos, NEW g, NEW b, NEW c, NEW v,
         buffer' = [buffer EXCEPT ![g][b][c] = v],
         g = f => b = At(f, "Produce")
  PROVE  (g # f => buffer'[f] = buffer[f]) /\ (g = f => OnlyAtProducer(f))
<1>1. f \in DOMAIN buffer /\ DOMAIN buffer[f] = 0 .. design.depth[f] - 1
  BY DEF Engines
<1>2. g # f => buffer'[f] = buffer[f]
  BY <1>1
<1>3. g = f => buffer'[f] = [buffer[f] EXCEPT ![b] = [buffer[f][b] EXCEPT ![c] = v]]
  BY <1>1
<1>4. g = f => OnlyAtProducer(f)
  BY <1>1, <1>3 DEF OnlyAtProducer
<1> QED BY <1>2, <1>4

LEMMA StartMoves ==
  ASSUME design \in Designs, Image, Engines, NEW f \in Fifos, OneToOne(f), Units(f),
         NEW ch \in Channels, StartDescriptor(ch)
  PROVE  Moved(f)
<1> DEFINE bd == Descriptor(ch)
           c == ch[1]
<1>0. design' = design /\ image' = image /\ core' = core /\ ~channel[ch].moving
  BY DEF StartDescriptor
<1>1. /\ \A d \in Channels \ {ch} : channel'[d] = channel[d]
      /\ channel'[ch].at = channel[ch].at /\ channel'[ch].moving = TRUE
  BY DEF StartDescriptor, Engines
<1>2. bd.fifo = ch[2] /\ ch = <<c, ch[2]>>
  BY DescriptorAt, ChannelFacts
<1>3. producer[f] \in Nat /\ consumer[f] \in Nat /\ f \in DOMAIN producer /\ f \in DOMAIN consumer
  BY DEF Units, Engines
<1>4. CASE ch[2] # f
  <2>1. Rests(f, "Produce") /\ Rests(f, "Consume")
    BY <1>0, <1>1, <1>4, OtherChannel DEF Ports
  <2>2. producer'[f] = producer[f] /\ consumer'[f] = consumer[f] /\ buffer'[f] = buffer[f]
    BY <1>2, <1>3, <1>4 DEF StartDescriptor, Engines
  <2>3. Locks(f, 0, 0)
    BY <2>2, <1>3 DEF Locks
  <2> QED BY <2>1, <2>2, <2>3 DEF Moved, Stays
<1>5. CASE ch[2] = f /\ ch \in SourceChannels
  <2>1. c \in EndConnections(f, "Consume") /\ c \notin EndConnections(f, "Produce")
    BY <1>5, ChannelFacts, ApartEnds
  <2>2. Rests(f, "Produce")
    BY <1>0, <1>1, <2>1, OtherChannel DEF Ports
  <2>3. /\ bd.acquire \in {0, 1}
        /\ bd.acquire = 1 => Takes(f, "Consume")
        /\ bd.acquire = 0 => Rests(f, "Consume")
    <3>1. ch = <<c, f>> /\ "Consume" \in Ports
      BY <1>2, <1>5 DEF Ports
    <3> HIDE DEF c
    <3>2. /\ ~channel[<<c, f>>].moving
          /\ channel'[<<c, f>>].at = channel[<<c, f>>].at /\ channel'[<<c, f>>].moving = TRUE
      BY <1>0, <1>1, <3>1
    <3>3. /\ Descriptor(<<c, f>>).acquire \in {0, 1}
          /\ Descriptor(<<c, f>>).acquire = 1 => Takes(f, "Consume")
          /\ Descriptor(<<c, f>>).acquire = 0 => Rests(f, "Consume") /\ Busy(f, "Consume") = 1
      BY <1>0, <2>1, <3>1, <3>2, ChannelStarts
    <3> QED BY <3>1, <3>3
  <2>4. /\ consumer[f] >= bd.acquire /\ consumer'[f] = consumer[f] - bd.acquire
        /\ producer'[f] = producer[f] /\ buffer'[f] = buffer[f]
    BY <1>2, <1>3, <1>5 DEF StartDescriptor
  <2> HIDE DEF bd
  <2>5. CASE bd.acquire = 1
    BY <1>3, <2>2, <2>3, <2>4, <2>5 DEF Moved, StartsRead, Locks
  <2>6. CASE bd.acquire = 0
    BY <1>3, <2>2, <2>3, <2>4, <2>6 DEF Moved, Stays, Locks
  <2> QED BY <2>3, <2>5, <2>6
<1>6. CASE ch[2] = f /\ ch \notin SourceChannels
  <2>1. c \in EndConnections(f, "Produce") /\ c \notin EndConnections(f, "Consume")
    BY <1>6, ChannelFacts, ApartEnds DEF Channels
  <2>2. Rests(f, "Consume")
    BY <1>0, <1>1, <2>1, OtherChannel DEF Ports
  <2>3. /\ bd.acquire \in {0, 1}
        /\ bd.acquire = 1 => Takes(f, "Produce")
        /\ bd.acquire = 0 => Rests(f, "Produce") /\ Busy(f, "Produce") = 1
    <3>1. ch = <<c, f>> /\ "Produce" \in Ports
      BY <1>2, <1>6 DEF Ports
    <3> HIDE DEF c
    <3>2. /\ ~channel[<<c, f>>].moving
          /\ channel'[<<c, f>>].at = channel[<<c, f>>].at /\ channel'[<<c, f>>].moving = TRUE
      BY <1>0, <1>1, <3>1
    <3>3. /\ Descriptor(<<c, f>>).acquire \in {0, 1}
          /\ Descriptor(<<c, f>>).acquire = 1 => Takes(f, "Produce")
          /\ Descriptor(<<c, f>>).acquire = 0 => Rests(f, "Produce") /\ Busy(f, "Produce") = 1
      BY <1>0, <2>1, <3>1, <3>2, ChannelStarts
    <3> QED BY <3>1, <3>3
  <2>4. producer[f] >= bd.acquire /\ producer'[f] = producer[f] - bd.acquire /\ consumer'[f] = consumer[f]
    BY <1>2, <1>3, <1>6 DEF StartDescriptor
  <2>5. At(f, "Produce") = bd.buffer
    BY <1>2, <1>6, <2>1, EndsAt DEF EndsOfOneUser, ConnectionEnd, Ports
  <2>6. buffer' = [buffer EXCEPT ![bd.fifo][bd.buffer][c] = <<>>]
    BY <1>6 DEF StartDescriptor
  <2> HIDE DEF bd
  <2>7. OnlyAtProducer(f)
    BY <1>2, <1>6, <2>5, <2>6, BufferChange
  <2>8. CASE bd.acquire = 1
    BY <1>3, <2>2, <2>3, <2>4, <2>7, <2>8 DEF Moved, StartsWrite, Locks
  <2>9. CASE bd.acquire = 0
    BY <1>3, <2>2, <2>3, <2>4, <2>7, <2>9 DEF Moved, Stays, Locks
  <2> QED BY <2>3, <2>8, <2>9
<1> QED BY <1>4, <1>5, <1>6

\* A channel of the fifo that is done with its descriptor.
LEMMA DoneMoves ==
  ASSUME design \in Designs, Image, Engines, design' = design, image' = image, core' = core,
         NEW f \in Fifos, OneToOne(f), NEW ch \in Channels, channel[ch].moving, Advance(ch), NEW p \in Ports
  PROVE  /\ ch[2] # f \/ ch[1] \notin EndConnections(f, p) => Rests(f, p)
         /\ ch[2] = f /\ ch[1] \in EndConnections(f, p) =>
              /\ Descriptor(ch).release \in {0, 1} /\ Busy(f, p) = 1 /\ At(f, p) = Descriptor(ch).buffer
              /\ Descriptor(ch).release = 1 => Gives(f, p)
              /\ Descriptor(ch).release = 0 => Rests(f, p)
<1> DEFINE c == ch[1]
<1>1. \A d \in Channels \ {ch} : channel'[d] = channel[d]
  BY DEF Advance, Engines
<1>2. ch[2] # f \/ c \notin EndConnections(f, p) => Rests(f, p)
  BY <1>1, OtherChannel
<1>3. CASE ch[2] = f /\ c \in EndConnections(f, p)
  <2>1. ch = <<c, f>>
    BY <1>3, ChannelFacts
  <2> HIDE DEF c
  <2>2. channel[<<c, f>>].moving /\ Advance(<<c, f>>)
    BY <2>1
  <2>3. /\ Descriptor(<<c, f>>).release \in {0, 1} /\ Busy(f, p) = 1
        /\ Descriptor(<<c, f>>).release = 1 => Gives(f, p)
        /\ Descriptor(<<c, f>>).release = 0 => Rests(f, p)
    BY <1>3, <2>2, ChannelAdvances
  <2>4. At(f, p) = Descriptor(<<c, f>>).buffer
    BY <1>3, EndsAt DEF EndsOfOneUser, ConnectionEnd
  <2>5. Descriptor(ch) = Descriptor(<<c, f>>)
    BY <2>1
  <2> QED BY <1>3, <2>3, <2>4, <2>5 DEF c
<1> QED BY <1>2, <1>3

LEMMA SendMoves ==
  ASSUME design \in Designs, Image, Engines, NEW f \in Fifos, OneToOne(f), Units(f),
         NEW ch \in Channels, SendObject(ch)
  PROVE  Moved(f)
<1> DEFINE bd == Descriptor(ch)
<1>0. /\ design' = design /\ image' = image /\ core' = core /\ buffer' = buffer /\ consumer' = consumer
      /\ channel[ch].moving /\ Advance(ch)
  BY DEF SendObject
<1>1. bd.fifo = ch[2] /\ ch[1] \in EndConnections(ch[2], "Consume")
  BY DescriptorAt, ChannelFacts DEF SendObject
<1>2. producer' = [producer EXCEPT ![bd.fifo] = @ + bd.release]
  BY DEF SendObject
<1>3. producer[f] \in Nat /\ consumer[f] \in Nat /\ f \in DOMAIN producer /\ f \in DOMAIN consumer
  BY DEF Units, Engines
<1>4. Rests(f, "Produce")
  <2>1. ch[2] # f \/ ch[1] \notin EndConnections(f, "Produce")
    BY <1>1, ApartEnds
  <2> QED BY <1>0, <2>1, DoneMoves DEF Ports
<1>5. CASE ch[2] # f
  <2>1. Rests(f, "Consume")
    BY <1>0, <1>5, DoneMoves DEF Ports
  <2>2. Locks(f, 0, 0)
    BY <1>0, <1>1, <1>2, <1>3, <1>5 DEF Locks
  <2> QED BY <1>0, <1>4, <2>1, <2>2 DEF Moved, Stays
<1>6. CASE ch[2] = f
  <2>1. /\ bd.release \in {0, 1}
        /\ bd.release = 1 => Gives(f, "Consume")
        /\ bd.release = 0 => Rests(f, "Consume")
    BY <1>0, <1>1, <1>6, DoneMoves DEF Ports
  <2>2. producer'[f] = producer[f] + bd.release /\ consumer'[f] = consumer[f] + 0
    BY <1>0, <1>1, <1>2, <1>3, <1>6
  <2> HIDE DEF bd
  <2>3. CASE bd.release = 1
    BY <1>0, <1>4, <2>1, <2>2, <2>3 DEF Moved, EndsRead, Locks
  <2>4. CASE bd.release = 0
    BY <1>0, <1>4, <2>1, <2>2, <2>4 DEF Moved, Stays, Locks
  <2> QED BY <2>1, <2>3, <2>4
<1> QED BY <1>5, <1>6

LEMMA ReceiveMoves ==
  ASSUME design \in Designs, Image, Engines, NEW f \in Fifos, OneToOne(f), Units(f),
         NEW ch \in Channels, ReceiveObject(ch)
  PROVE  Moved(f)
<1> DEFINE bd == Descriptor(ch)
<1>0. /\ design' = design /\ image' = image /\ core' = core /\ producer' = producer
      /\ channel[ch].moving /\ Advance(ch)
  BY DEF ReceiveObject
<1>1. bd.fifo = ch[2] /\ ch[1] \in EndConnections(ch[2], "Produce")
  BY DescriptorAt, ChannelFacts DEF ReceiveObject
<1>2. /\ consumer' = [consumer EXCEPT ![bd.fifo] = @ + bd.release]
      /\ buffer' = [buffer EXCEPT ![bd.fifo][bd.buffer][ch[1]] = stream[ch][1]]
  BY DEF ReceiveObject
<1>3. producer[f] \in Nat /\ consumer[f] \in Nat /\ f \in DOMAIN producer /\ f \in DOMAIN consumer
  BY DEF Units, Engines
<1>4. Rests(f, "Consume")
  <2>1. ch[2] # f \/ ch[1] \notin EndConnections(f, "Consume")
    BY <1>1, ApartEnds
  <2> QED BY <1>0, <2>1, DoneMoves DEF Ports
<1>5. CASE ch[2] # f
  <2>1. Rests(f, "Produce")
    BY <1>0, <1>5, DoneMoves DEF Ports
  <2>2. Locks(f, 0, 0)
    BY <1>0, <1>1, <1>2, <1>3, <1>5 DEF Locks
  <2>3. buffer'[f] = buffer[f]
    BY <1>1, <1>2, <1>5, BufferChange
  <2> QED BY <1>4, <2>1, <2>2, <2>3 DEF Moved, Stays
<1>6. CASE ch[2] = f
  <2>1. /\ bd.release \in {0, 1} /\ Busy(f, "Produce") = 1 /\ At(f, "Produce") = bd.buffer
        /\ bd.release = 1 => Gives(f, "Produce")
        /\ bd.release = 0 => Rests(f, "Produce")
    BY <1>0, <1>1, <1>6, DoneMoves DEF Ports
  <2>2. producer'[f] = producer[f] + 0 /\ consumer'[f] = consumer[f] + bd.release
    BY <1>0, <1>1, <1>2, <1>3, <1>6
  <2>3. OnlyAtProducer(f)
    BY <1>1, <1>2, <1>6, <2>1, BufferChange
  <2> HIDE DEF bd
  <2>4. CASE bd.release = 1
    BY <1>4, <2>1, <2>2, <2>3, <2>4 DEF Moved, EndsWrite, Locks
  <2>5. CASE bd.release = 0
    BY <1>4, <2>1, <2>2, <2>3, <2>5 DEF Moved, Stays, Locks
  <2> QED BY <2>1, <2>4, <2>5
<1> QED BY <1>5, <1>6

LEMMA CoreMoves ==
  ASSUME design \in Designs, Image, Engines, NEW f \in Fifos, OneToOne(f), FifoInv(f),
         NEW k \in Cores, CoreStep(k)
  PROVE  Moved(f)
<1> DEFINE i == Instruction(k)
<1>0. design' = design /\ image' = image /\ channel' = channel
  BY DEF CoreStep, AcquireRead, AcquireWrite, ReleaseRead, ReleaseWrite
<1>1. \A j \in Cores \ {k} : core'[j] = core[j]
  BY DEF CoreStep, AcquireRead, AcquireWrite, ReleaseRead, ReleaseWrite, Engines
<1>2. core'[k].pc = NextPc(k)
  <2>1. k \in DOMAIN core /\ DOMAIN core[k] = {"pc", "held", "read"}
    BY DEF Engines
  <2>2. CASE AcquireRead(k)
    BY <2>1, <2>2 DEF AcquireRead
  <2>3. CASE AcquireWrite(k)
    BY <2>1, <2>3 DEF AcquireWrite
  <2>4. CASE ReleaseRead(k)
    BY <2>1, <2>4 DEF ReleaseRead
  <2>5. CASE ReleaseWrite(k)
    BY <2>1, <2>5 DEF ReleaseWrite
  <2> QED BY <2>2, <2>3, <2>4, <2>5 DEF CoreStep
<1>3. \A p \in Ports : /\ i.fifo = f /\ i.port = p /\ i.op = "acquire" => Takes(f, p) /\ i.buffer = At(f, p)
                       /\ i.fifo = f /\ i.port = p /\ i.op = "release" => Gives(f, p)
                       /\ ~(i.fifo = f /\ i.port = p) => Rests(f, p)
  BY <1>0, <1>1, <1>2, CoreEnds
<1>4. producer[f] \in Nat /\ consumer[f] \in Nat /\ f \in DOMAIN producer /\ f \in DOMAIN consumer
  BY DEF FifoInv, Units, Engines
<1>5. i.fifo = f /\ i.port = "Produce" /\ i.op = "release" => core[k].held[f] = At(f, "Produce")
  <2> SUFFICES ASSUME i.fifo = f, i.port = "Produce", i.op = "release"
               PROVE  core[k].held[f] = At(f, "Produce")
    OBVIOUS
  <2>1. Busy(f, "Produce") = 1
    BY <1>3 DEF Gives, Ports
  <2>2. k \in EndCores(f, "Produce")
    BY DEF Image, TextOf, Engines, Instruction
  <2>3. CoreEnd(f, "Produce", k)
    BY <2>2, EndsAt DEF EndsOfOneUser, Ports
  <2>4. \A x : x = core[k].pc - 1 =>
          /\ At(f, "Produce") = Given(k, f, "Produce", x) % design.depth[f]
          /\ Taken(k, f, "Produce", x) - Given(k, f, "Produce", x) = 1
    BY <2>1, <2>3 DEF CoreEnd
  <2>5. core[k].pc - 1 \in 0 .. Len(image.code[k])
    BY DEF Image, TextOf, Engines
  <2>6. \A x \in 0 .. Len(image.code[k]) : Taken(k, f, "Produce", x) \in Nat /\ Given(k, f, "Produce", x) \in Nat
    BY CoreAt DEF Ports
  <2>7. Holds(k, f, "Produce")
    <3> DEFINE x == core[k].pc - 1
    <3>1. /\ Taken(k, f, "Produce", x) \in Nat /\ Given(k, f, "Produce", x) \in Nat
          /\ Taken(k, f, "Produce", x) - Given(k, f, "Produce", x) = 1
      BY <2>4, <2>5, <2>6
    <3> QED BY <3>1 DEF Holds
  <2> QED BY <2>4, <2>7 DEF FifoInv, HeldBuffer, Ports
<1> HIDE DEF i
<1>6. CASE AcquireRead(k)
  <2>1. /\ i.op = "acquire" /\ i.port = "Consume" /\ consumer[i.fifo] >= 1
        /\ consumer' = [consumer EXCEPT ![i.fifo] = @ - 1] /\ producer' = producer /\ buffer' = buffer
    BY <1>6 DEF AcquireRead, i
  <2>2. Rests(f, "Produce") /\ (i.fifo = f => Takes(f, "Consume")) /\ (i.fifo # f => Rests(f, "Consume"))
    BY <1>3, <2>1 DEF Ports
  <2>3. CASE i.fifo = f
    BY <1>4, <2>1, <2>2, <2>3 DEF Moved, StartsRead, Locks
  <2>4. CASE i.fifo # f
    BY <1>4, <2>1, <2>2, <2>4 DEF Moved, Stays, Locks
  <2> QED BY <2>3, <2>4
<1>7. CASE ReleaseRead(k)
  <2>1. /\ i.op = "release" /\ i.port = "Consume"
        /\ producer' = [producer EXCEPT ![i.fifo] = @ + 1] /\ consumer' = consumer /\ buffer' = buffer
    BY <1>7 DEF ReleaseRead, i
  <2>2. Rests(f, "Produce") /\ (i.fifo = f => Gives(f, "Consume")) /\ (i.fifo # f => Rests(f, "Consume"))
    BY <1>3, <2>1 DEF Ports
  <2>3. CASE i.fifo = f
    BY <1>4, <2>1, <2>2, <2>3 DEF Moved, EndsRead, Locks
  <2>4. CASE i.fifo # f
    BY <1>4, <2>1, <2>2, <2>4 DEF Moved, Stays, Locks
  <2> QED BY <2>3, <2>4
<1>8. CASE AcquireWrite(k)
  <2>1. /\ i.op = "acquire" /\ i.port = "Produce" /\ producer[i.fifo] >= 1
        /\ producer' = [producer EXCEPT ![i.fifo] = @ - 1] /\ consumer' = consumer
        /\ buffer' = [buffer EXCEPT ![i.fifo][i.buffer]["core"] = <<>>]
    BY <1>8 DEF AcquireWrite, i
  <2>2. /\ Rests(f, "Consume") /\ (i.fifo # f => Rests(f, "Produce"))
        /\ i.fifo = f => Takes(f, "Produce") /\ i.buffer = At(f, "Produce")
    BY <1>3, <2>1 DEF Ports
  <2>3. (i.fifo # f => buffer'[f] = buffer[f]) /\ (i.fifo = f => OnlyAtProducer(f))
    <3>1. i.fifo = f => i.buffer = At(f, "Produce")
      BY <2>2
    <3>2. i.fifo # f => buffer'[f] = buffer[f]
      BY <2>1, <3>1, BufferChange
    <3>3. i.fifo = f => OnlyAtProducer(f)
      BY <2>1, <3>1, BufferChange
    <3> QED BY <3>2, <3>3
  <2>4. CASE i.fifo = f
    BY <1>4, <2>1, <2>2, <2>3, <2>4 DEF Moved, StartsWrite, Locks
  <2>5. CASE i.fifo # f
    BY <1>4, <2>1, <2>2, <2>3, <2>5 DEF Moved, Stays, Locks
  <2> QED BY <2>4, <2>5
<1>9. CASE ReleaseWrite(k)
  <2> DEFINE b == core[k].held[i.fifo]
  <2>1. /\ i.op = "release" /\ i.port = "Produce"
        /\ consumer' = [consumer EXCEPT ![i.fifo] = @ + 1] /\ producer' = producer
        /\ buffer' = [buffer EXCEPT ![i.fifo][b]["core"] = core[k].read]
    BY <1>9 DEF ReleaseWrite, i
  <2>2. /\ Rests(f, "Consume") /\ (i.fifo # f => Rests(f, "Produce"))
        /\ i.fifo = f => Gives(f, "Produce")
    BY <1>3, <2>1 DEF Ports
  <2>3. i.fifo = f => b = At(f, "Produce")
    BY <1>5, <2>1
  <2> HIDE DEF b
  <2>4. (i.fifo # f => buffer'[f] = buffer[f]) /\ (i.fifo = f => OnlyAtProducer(f))
    <3>1. i.fifo # f => buffer'[f] = buffer[f]
      BY <2>1, <2>3, BufferChange
    <3>2. i.fifo = f => OnlyAtProducer(f)
      BY <2>1, <2>3, BufferChange
    <3> QED BY <3>1, <3>2
  <2>5. CASE i.fifo = f
    BY <1>4, <2>1, <2>2, <2>4, <2>5 DEF Moved, EndsWrite, Locks
  <2>6. CASE i.fifo # f
    BY <1>4, <2>1, <2>2, <2>4, <2>6 DEF Moved, Stays, Locks
  <2> QED BY <2>5, <2>6
<1> QED BY <1>6, <1>7, <1>8, <1>9 DEF CoreStep

LEMMA RunMoves ==
  ASSUME design \in Designs, Loaded, Run, NEW f \in Fifos, OneToOne(f)
  PROVE  Moved(f)
<1>0. Image /\ Engines /\ FifoInv(f) /\ Units(f)
  BY DEF Loaded, FifoInv
<1>1. ASSUME NEW ch \in Channels, ChannelStep(ch) PROVE Moved(f)
  BY <1>0, <1>1, StartMoves, SendMoves, ReceiveMoves DEF ChannelStep
<1>2. ASSUME NEW k \in Cores, CoreStep(k) PROVE Moved(f)
  BY <1>0, <1>2, CoreMoves
<1>3. ASSUME NEW c, ShimSend(c) \/ ShimReceive(c) PROVE Moved(f)
  <2>1. UNCHANGED <<design, image, producer, consumer, buffer, channel, core>>
    BY <1>3 DEF ShimSend, ShimReceive
  <2>2. Rests(f, "Produce") /\ Rests(f, "Consume")
    BY <2>1, EndRests DEF Ports
  <2>3. Locks(f, 0, 0)
    BY <1>0, <2>1 DEF Locks, Units
  <2> QED BY <2>1, <2>2, <2>3 DEF Moved, Stays
<1> QED BY <1>1, <1>2, <1>3 DEF Run

LEMMA EnginesKept ==
  ASSUME design \in Designs, Image, Engines, Run
  PROVE  Engines'
<1>0. design' = design /\ image' = image /\ \A ch \in Channels : Len(image.rings[ch]) \in Nat \ {0}
  <2>1. \A ch \in Channels : Len(image.rings[ch]) \in Nat \ {0}
    <3> TAKE ch \in Channels
    <3>1. PICK n \in Nat \ {0} : RingOf(ch, n)
      BY DEF Image
    <3>2. design.depth[ch[2]] \in Nat \ {0}
      BY ChannelFacts, DesignFacts
    <3> QED BY <3>1, <3>2 DEF RingOf
  <2> QED BY <2>1, RunFrame
<1> SUFFICES /\ DOMAIN producer' = Fifos /\ DOMAIN consumer' = Fifos
             /\ DOMAIN buffer' = Fifos /\ \A f \in Fifos : DOMAIN buffer'[f] = 0 .. design.depth[f] - 1
             /\ channel' \in [Channels -> [at : Nat, moving : BOOLEAN]]
             /\ \A ch \in Channels : channel'[ch].at \in 1 .. Len(image.rings[ch])
             /\ DOMAIN core' = Cores
             /\ \A k \in Cores : /\ DOMAIN core'[k] = {"pc", "held", "read"} /\ DOMAIN core'[k].held = Fifos
                                 /\ core'[k].pc \in 1 .. Len(image.code[k])
  BY <1>0, DesignKept DEF Engines
<1> USE DEF Engines
<1>1. ASSUME NEW ch \in Channels, ChannelStep(ch)
      PROVE  /\ DOMAIN producer' = Fifos /\ DOMAIN consumer' = Fifos /\ DOMAIN buffer' = Fifos
             /\ \A f \in Fifos : DOMAIN buffer'[f] = DOMAIN buffer[f]
             /\ core' = core
             /\ channel' \in [Channels -> [at : Nat, moving : BOOLEAN]]
             /\ \A d \in Channels : channel'[d].at \in 1 .. Len(image.rings[d])
  <2>1. CASE StartDescriptor(ch)
    <3>1. channel' = [channel EXCEPT ![ch].moving = TRUE] /\ core' = core
      BY <2>1 DEF StartDescriptor
    <3>2. channel' \in [Channels -> [at : Nat, moving : BOOLEAN]]
      BY <3>1
    <3>3. \A d \in Channels : channel'[d].at = channel[d].at
      BY <3>1
    <3>4. DOMAIN producer' = Fifos /\ DOMAIN consumer' = Fifos
      BY <2>1 DEF StartDescriptor
    <3>5. DOMAIN buffer' = Fifos /\ \A f \in Fifos : DOMAIN buffer'[f] = DOMAIN buffer[f]
      BY <2>1 DEF StartDescriptor
    <3> QED BY <3>1, <3>2, <3>3, <3>4, <3>5
  <2>2. CASE SendObject(ch) \/ ReceiveObject(ch)
    <3>1. Advance(ch)
      BY <2>2 DEF SendObject, ReceiveObject
    <3>2. (channel[ch].at % Len(image.rings[ch])) + 1 \in 1 .. Len(image.rings[ch])
      <4>1. channel[ch].at \in Nat /\ Len(image.rings[ch]) \in Nat \ {0}
        BY <1>0
      <4> QED BY <4>1
    <3>3. channel' \in [Channels -> [at : Nat, moving : BOOLEAN]]
      BY <3>1, <3>2, <1>0 DEF Advance
    <3>4. \A d \in Channels : channel'[d].at \in 1 .. Len(image.rings[d])
      BY <3>1, <3>2 DEF Advance
    <3>5. /\ DOMAIN producer' = Fifos /\ DOMAIN consumer' = Fifos /\ DOMAIN buffer' = Fifos
          /\ \A f \in Fifos : DOMAIN buffer'[f] = DOMAIN buffer[f]
          /\ core' = core
      BY <2>2 DEF SendObject, ReceiveObject
    <3> QED BY <3>3, <3>4, <3>5
  <2> QED BY <1>1, <2>1, <2>2 DEF ChannelStep
<1>2. ASSUME NEW k \in Cores, CoreStep(k)
      PROVE  /\ DOMAIN producer' = Fifos /\ DOMAIN consumer' = Fifos /\ DOMAIN buffer' = Fifos
             /\ \A f \in Fifos : DOMAIN buffer'[f] = DOMAIN buffer[f]
             /\ channel' = channel /\ DOMAIN core' = Cores
             /\ \A j \in Cores : /\ DOMAIN core'[j] = {"pc", "held", "read"} /\ DOMAIN core'[j].held = Fifos
                                 /\ core'[j].pc \in 1 .. Len(image.code[j])
  <2>1. NextPc(k) \in 1 .. Len(image.code[k])
    <3>1. Len(image.code[k]) \in Nat \ {0} /\ core[k].pc \in Nat
      BY DEF Image, TextOf
    <3> QED BY <3>1 DEF NextPc
  <2>2. CASE AcquireRead(k)
    BY <2>1, <2>2 DEF AcquireRead
  <2>3. CASE AcquireWrite(k)
    BY <2>1, <2>3 DEF AcquireWrite
  <2>4. CASE ReleaseRead(k)
    BY <2>1, <2>4 DEF ReleaseRead
  <2>5. CASE ReleaseWrite(k)
    BY <2>1, <2>5 DEF ReleaseWrite
  <2> QED BY <1>2, <2>2, <2>3, <2>4, <2>5 DEF CoreStep
<1>3. ASSUME NEW c, ShimSend(c) \/ ShimReceive(c)
      PROVE  UNCHANGED <<producer, consumer, buffer, channel, core>>
  BY <1>3 DEF ShimSend, ShimReceive
<1>4. CASE \E ch \in Channels : ChannelStep(ch)
  BY <1>1, <1>4
<1>5. CASE \E k \in Cores : CoreStep(k)
  BY <1>2, <1>5
<1>6. CASE (\E c \in SentConnections : ShimSend(c)) \/ (\E c \in ReceivedConnections : ShimReceive(c))
  BY <1>3, <1>6
<1> QED BY <1>4, <1>5, <1>6 DEF Run

\* A core holds a buffer of a fifo when it is the user of that end and the end
\* has a unit.
HoldersAreUsers ==
  design \in Designs /\ Image /\ Engines =>
    \A f \in Fifos, p \in Ports : OneToOne(f) => \A k \in Cores :
      Holds(k, f, p) => /\ k \in EndCores(f, p) /\ Busy(f, p) = 1
                        /\ At(f, p) = Given(k, f, p, core[k].pc - 1) % design.depth[f]

LEMMA Holders == HoldersAreUsers
<1> SUFFICES ASSUME design \in Designs, Image, Engines, NEW f \in Fifos, NEW p \in Ports, OneToOne(f),
                    NEW k \in Cores, Holds(k, f, p)
             PROVE  /\ k \in EndCores(f, p) /\ Busy(f, p) = 1
                    /\ At(f, p) = Given(k, f, p, core[k].pc - 1) % design.depth[f]
  BY DEF HoldersAreUsers
<1> DEFINE x == core[k].pc - 1
<1>1. x \in 0 .. Len(image.code[k])
  BY DEF Image, TextOf, Engines
<1>2. /\ Taken(k, f, p, x) \in Nat /\ Given(k, f, p, x) \in Nat
      /\ Taken(k, f, p, x) - Given(k, f, p, x) \in {0, 1}
  <2> HIDE DEF x
  <2> QED BY <1>1, CoreAt
<1>3. Taken(k, f, p, x) > Given(k, f, p, x)
  BY DEF Holds
<1>4. k \in EndCores(f, p)
  <2> SUFFICES ASSUME k \notin EndCores(f, p) PROVE FALSE
    OBVIOUS
  <2>1. Instructions(k, "acquire", f, p, x) = {}
    <3> SUFFICES ASSUME NEW i \in Instructions(k, "acquire", f, p, x) PROVE FALSE
      OBVIOUS
    <3>1. i \in 1 .. x /\ image.code[k][i].fifo = f /\ image.code[k][i].port = p
      BY DEF Instructions
    <3>2. i \in DOMAIN image.code[k]
      BY <1>1, <3>1 DEF Image, TextOf
    <3> QED BY <3>1, <3>2 DEF Image, TextOf
  <2>2. Taken(k, f, p, x) = 0
    BY <2>1, FS_EmptySet DEF Taken
  <2> QED BY <1>2, <1>3, <2>2
<1>5. \A y : y = x => /\ At(f, p) = Given(k, f, p, y) % design.depth[f]
                      /\ Busy(f, p) = Taken(k, f, p, y) - Given(k, f, p, y)
  BY <1>4, EndsAt DEF EndsOfOneUser, CoreEnd
<1>6. Busy(f, p) = Taken(k, f, p, x) - Given(k, f, p, x)
  BY <1>5
<1>7. Busy(f, p) = 1
  BY <1>2, <1>3, <1>6
<1> QED BY <1>4, <1>5, <1>7

LEMMA HoldersNext == HoldersAreUsers'
  BY Holders, PTL

LEMMA HeldKept ==
  ASSUME design \in Designs, Loaded, Image', Engines', Run, NEW f \in Fifos, OneToOne(f)
  PROVE  HeldBuffer(f)'
<1>0. design' = design /\ image' = image /\ Image /\ Engines /\ HeldBuffer(f) /\ FifoInv(f)
  BY RunFrame DEF Loaded, FifoInv
<1> SUFFICES ASSUME NEW k \in Cores, NEW p \in Ports, Holds(k, f, p)'
             PROVE  core'[k].held[f] = At(f, p)'
  <2>1. HoldersAreUsers'
    BY HoldersNext
  <2>2. \A k \in Cores, p \in Ports :
          Holds(k, f, p)' => At(f, p)' = (Given(k, f, p, core[k].pc - 1) % design.depth[f])'
    BY <2>1, <1>0, DesignKept DEF HoldersAreUsers
  <2> QED BY <2>2, <1>0, DesignKept DEF HeldBuffer
<1>1. k \in EndCores(f, p) /\ Busy(f, p)' = 1
  BY <1>0, HoldersNext, DesignKept DEF HoldersAreUsers
<1>2. Busy(f, p) = 1 => core[k].held[f] = At(f, p)
  <2> SUFFICES ASSUME Busy(f, p) = 1 PROVE core[k].held[f] = At(f, p)
    OBVIOUS
  <2> DEFINE x == core[k].pc - 1
  <2>1. \A y : y = x => /\ At(f, p) = Given(k, f, p, y) % design.depth[f]
                        /\ Busy(f, p) = Taken(k, f, p, y) - Given(k, f, p, y)
    BY <1>1, EndsAt DEF EndsOfOneUser, CoreEnd
  <2>2. Taken(k, f, p, x) - Given(k, f, p, x) = 1 /\ At(f, p) = Given(k, f, p, x) % design.depth[f]
    BY <2>1
  <2>3. Taken(k, f, p, x) \in Nat /\ Given(k, f, p, x) \in Nat
    <3>1. x \in 0 .. Len(image.code[k])
      BY <1>0 DEF Image, TextOf, Engines
    <3> HIDE DEF x
    <3> QED BY <1>0, <3>1, CoreAt
  <2>4. Holds(k, f, p)
    <3>1. Taken(k, f, p, x) > Given(k, f, p, x)
      <4> HIDE DEF x
      <4> QED BY <2>2, <2>3
    <3> QED BY <3>1 DEF Holds
  <2> QED BY <2>2, <2>4, <1>0 DEF HeldBuffer
<1>3. CASE core'[k].pc = core[k].pc /\ core'[k].held = core[k].held /\ channel' = channel
           /\ \A j \in EndCores(f, p) : core'[j].pc = core[j].pc
  <2>1. Rests(f, p)
    BY <1>0, <1>3, EndRests
  <2> QED BY <1>1, <1>2, <1>3, <2>1 DEF Rests
<1>4. ASSUME NEW ch \in Channels, ChannelStep(ch) PROVE core'[k].held[f] = At(f, p)'
  <2>1. core' = core
    BY <1>4 DEF ChannelStep, StartDescriptor, SendObject, ReceiveObject
  <2>2. EndConnections(f, p) = {}
    BY <1>1 DEF OneToOne
  <2>3. Rests(f, p)
    BY <1>0, <2>1, <2>2, EndRests
  <2> QED BY <1>1, <1>2, <2>1, <2>3 DEF Rests
<1>5. ASSUME NEW c, ShimSend(c) \/ ShimReceive(c) PROVE core'[k].held[f] = At(f, p)'
  <2>1. core' = core /\ channel' = channel
    BY <1>5 DEF ShimSend, ShimReceive
  <2> QED BY <1>3, <2>1
<1>6. ASSUME NEW j \in Cores, CoreStep(j) PROVE core'[k].held[f] = At(f, p)'
  <2> DEFINE i == Instruction(j)
  <2>1. /\ channel' = channel /\ \A l \in Cores \ {j} : core'[l] = core[l]
    BY <1>6, <1>0 DEF CoreStep, AcquireRead, AcquireWrite, ReleaseRead, ReleaseWrite, Engines
  <2>2. /\ core'[j].pc = NextPc(j)
        /\ i.op = "acquire" => core'[j].held[i.fifo] = i.buffer
        /\ ~(i.op = "acquire" /\ i.fifo = f) => core'[j].held[f] = core[j].held[f]
    <3>1. /\ j \in DOMAIN core /\ DOMAIN core[j] = {"pc", "held", "read"} /\ DOMAIN core[j].held = Fifos
          /\ i.fifo \in Fifos
      BY <1>0 DEF Image, Engines, TextOf, Instruction
    <3>2. CASE AcquireRead(j)
      BY <3>1, <3>2 DEF AcquireRead
    <3>3. CASE AcquireWrite(j)
      BY <3>1, <3>3 DEF AcquireWrite
    <3>4. CASE ReleaseRead(j)
      BY <3>1, <3>4 DEF ReleaseRead
    <3>5. CASE ReleaseWrite(j)
      BY <3>1, <3>5 DEF ReleaseWrite
    <3> QED BY <1>6, <3>2, <3>3, <3>4, <3>5 DEF CoreStep
  <2>3. /\ i.fifo = f /\ i.port = p /\ i.op = "acquire" => Takes(f, p) /\ i.buffer = At(f, p)
        /\ i.fifo = f /\ i.port = p /\ i.op = "release" => Gives(f, p)
        /\ ~(i.fifo = f /\ i.port = p) => Rests(f, p)
    BY <1>0, <2>1, <2>2, CoreEnds
  <2>4. i.op \in {"acquire", "release"} /\ j \in EndCores(i.fifo, i.port) /\ i.port \in Ports
    BY <1>0 DEF Image, TextOf, Engines, Instruction
  <2>5. CASE j # k
    <3>1. \A l \in EndCores(f, p) : l = k
      BY <1>1 DEF OneToOne, AtMostOne
    <3> QED BY <1>3, <2>1, <2>5, <3>1
  <2> HIDE DEF i
  <2>6. CASE j = k /\ i.fifo = f /\ i.port = p /\ i.op = "acquire"
    BY <2>2, <2>3, <2>6 DEF Takes
  <2>7. CASE i.fifo = f /\ i.port = p /\ i.op = "release"
    BY <1>1, <2>3, <2>7 DEF Gives
  <2>8. CASE j = k /\ ~(i.fifo = f /\ i.port = p)
    <3>1. Rests(f, p)
      BY <2>3, <2>8
    <3>2. i.fifo # f
      BY <1>1, <2>4, <2>8, ApartEnds DEF Ports
    <3> QED BY <1>1, <1>2, <2>2, <2>8, <3>1, <3>2 DEF Rests
  <2> QED BY <2>4, <2>5, <2>6, <2>7, <2>8
<1> QED BY <1>4, <1>5, <1>6 DEF Run

---------------------------------------------------------------------------
(* The invariant is inductive                                              *)

LEMMA NextIInv ==
  ASSUME IInv, [Loads \/ Refuse \/ Run]_vars
  PROVE  IInv'
<1>1. CASE Loads
  <2>0. design' = design
    BY <1>1 DEF Loads, Load
  <2>1. Image' /\ Engines'
    BY <1>1, LoadsImage DEF IInv
  <2>2. \A f \in Fifos : OneToOne(f) => FifoInv(f)'
    BY <1>1, LoadsFifo DEF IInv
  <2> QED BY <2>0, <2>1, <2>2, DesignKept DEF IInv, Loaded
<1>2. CASE Refuse
  BY <1>2 DEF Refuse, IInv
<1>3. CASE Run
  <2>0. design' = design /\ image' = image /\ stage = "run" /\ Loaded /\ design \in Designs
    BY <1>3, RunFrame DEF IInv
  <2>1. Image' /\ Engines'
    BY <1>3, <2>0, ImageKept, EnginesKept DEF Loaded
  <2>2. ASSUME NEW f \in Fifos, OneToOne(f) PROVE FifoInv(f)'
    <3>1. Moved(f)
      BY <1>3, <2>0, <2>2, RunMoves
    <3>2. Units(f)' /\ InTurn(f)'
      BY <2>0, <2>2, <3>1, MovedKeeps DEF Loaded, FifoInv
    <3>3. HeldBuffer(f)'
      BY <1>3, <2>0, <2>1, <2>2, HeldKept
    <3> QED BY <3>2, <3>3 DEF FifoInv
  <2> QED BY <2>0, <2>1, <2>2, DesignKept DEF IInv, Loaded
<1>4. CASE UNCHANGED vars
  <2>0. UNCHANGED <<design, stage, image, producer, consumer, buffer, channel, core>>
    BY <1>4 DEF vars
  <2>1. CASE stage = "run"
    <3>1. Image' /\ Engines'
      BY <2>0, <2>1, ImageKept, DesignKept DEF IInv, Loaded, Engines
    <3>2. ASSUME NEW f \in Fifos, OneToOne(f) PROVE FifoInv(f)'
      <4>1. Rests(f, "Produce") /\ Rests(f, "Consume")
        BY <2>0, <3>2, EndRests DEF Ports
      <4>2. FifoInv(f)
        BY <2>1, <3>2 DEF IInv, Loaded
      <4>3. Units(f)' /\ InTurn(f)'
        BY <2>0, <4>1, <4>2, DesignKept DEF FifoInv, Units, InTurn, Filled, Rests
      <4>4. HeldBuffer(f)'
        BY <2>0, <4>2, TextKept, DesignKept DEF FifoInv, HeldBuffer, Holds
      <4> QED BY <4>3, <4>4 DEF FifoInv
    <3> QED BY <2>0, <3>1, <3>2, DesignKept DEF IInv, Loaded
  <2>2. CASE stage # "run"
    BY <2>0, <2>2 DEF IInv
  <2> QED BY <2>1, <2>2
<1> QED BY <1>1, <1>2, <1>3, <1>4

\* The units of a fifo's locks stay together and its two ends in turn, whatever
\* the engines of the array do.
THEOREM FifosInductive == ArraySpec => []IInv
<1>1. Init => IInv
  BY DEF Init, IInv
<1> QED BY <1>1, NextIInv, PTL DEF ArraySpec

---------------------------------------------------------------------------
(* Buffers are not read while they are written                             *)

\* Who uses a buffer is at it, with a unit.
LEMMA UsersAreAt ==
  ASSUME design \in Designs, Loaded, NEW f \in Fifos, OneToOne(f), NEW b
  PROVE  /\ Writing(f, b) => Busy(f, "Produce") = 1 /\ At(f, "Produce") = b
         /\ Reading(f, b) => Busy(f, "Consume") = 1 /\ At(f, "Consume") = b
<1>0. Image /\ Engines /\ HeldBuffer(f)
  BY DEF Loaded, FifoInv
<1>1. ASSUME NEW ch \in Channels, NEW p \in Ports, ch[2] = f => ch[1] \in EndConnections(f, p),
             channel[ch].moving, Descriptor(ch).fifo = f, Descriptor(ch).buffer = b
      PROVE  Busy(f, p) = 1 /\ At(f, p) = b
  <2> DEFINE c == ch[1]
  <2>1. ch[2] = f /\ ch = <<c, f>>
    BY <1>0, <1>1, DescriptorAt, ChannelFacts
  <2>2. c \in EndConnections(f, p)
    BY <1>1, <2>1
  <2> HIDE DEF c
  <2>3. ConnectionEnd(f, p, c)
    BY <2>2, EndsAt DEF EndsOfOneUser
  <2> QED BY <1>1, <2>1, <2>3 DEF ConnectionEnd
<1>2. ASSUME NEW k \in Cores, NEW p \in Ports, Holds(k, f, p), core[k].held[f] = b
      PROVE  Busy(f, p) = 1 /\ At(f, p) = b
  BY <1>0, <1>2, Holders DEF HoldersAreUsers, HeldBuffer
<1>3. Writing(f, b) => Busy(f, "Produce") = 1 /\ At(f, "Produce") = b
  <2>1. ASSUME NEW ch \in TargetChannels PROVE ch \in Channels /\ (ch[2] = f => ch[1] \in EndConnections(f, "Produce"))
    BY <2>1, ChannelFacts DEF Channels
  <2> QED BY <1>1, <1>2, <2>1 DEF Writing, Moves, Uses, Ports
<1>4. Reading(f, b) => Busy(f, "Consume") = 1 /\ At(f, "Consume") = b
  <2>1. ASSUME NEW ch \in SourceChannels PROVE ch \in Channels /\ (ch[2] = f => ch[1] \in EndConnections(f, "Consume"))
    BY <2>1, ChannelFacts DEF Channels
  <2> QED BY <1>1, <1>2, <2>1 DEF Reading, Moves, Uses, Ports
<1> QED BY <1>3, <1>4

LEMMA LoadedExclusive ==
  ASSUME design \in Designs, Loaded, NEW f \in Fifos, OneToOne(f)
  PROVE  Exclusive(f)
<1> SUFFICES ASSUME NEW b \in DOMAIN buffer[f], Writing(f, b), Reading(f, b) PROVE FALSE
  BY DEF Exclusive
<1>1. /\ Busy(f, "Produce") = 1 /\ At(f, "Produce") = b
      /\ Busy(f, "Consume") = 1 /\ At(f, "Consume") = b
  BY UsersAreAt
<1>2. Units(f) /\ InTurn(f) /\ Image /\ Engines
  BY DEF Loaded, FifoInv
<1>3. /\ design.depth[f] \in Nat \ {0} /\ consumer[f] \in Nat /\ producer[f] \in Nat /\ b \in Int
      /\ Filled(f) \in Nat /\ Filled(f) + 1 + producer[f] <= design.depth[f]
  BY <1>1, <1>2, FifoBounds
<1>4. Filled(f) = consumer[f] + 1
  BY <1>1 DEF Filled
<1>5. b \in {b + Filled(f), b + Filled(f) - design.depth[f]}
  BY <1>1, <1>2 DEF InTurn
<1> QED BY <1>3, <1>4, <1>5

\* No buffer of a fifo with one user at each end is read while it is written,
\* in any design and in any interleaving of the channels and the cores.
THEOREM OneToOneExclusive ==
  ArraySpec => [](stage = "run" => \A f \in Fifos : OneToOne(f) => Exclusive(f))
<1>1. IInv => (stage = "run" => \A f \in Fifos : OneToOne(f) => Exclusive(f))
  BY LoadedExclusive DEF IInv
<1> QED BY <1>1, FifosInductive, PTL

\* In a design all of whose fifos have one user at each end, no buffer at all
\* is read while it is written.
THEOREM BuffersAreExclusive == ArraySpec => []((\A f \in Fifos : OneToOne(f)) => BufferExclusive)
<1>1. IInv => ((\A f \in Fifos : OneToOne(f)) => BufferExclusive)
  BY LoadedExclusive DEF IInv, BufferExclusive
<1> QED BY <1>1, FifosInductive, PTL

---------------------------------------------------------------------------
(* A fifo is a queue                                                       *)

\* The buffer of the i-th of n objects behind position a of a ring of D.
Slot(D, a, n, i) == (a + D - n + i - 1) % D

LEMMA SlotFacts ==
  ASSUME NEW D \in Nat \ {0}, NEW a \in 0 .. D - 1, NEW n \in 0 .. D, NEW i \in 1 .. n
  PROVE  /\ Slot(D, a, n, i) = IF a - n + i - 1 >= 0 THEN a - n + i - 1 ELSE a - n + i - 1 + D
         /\ Slot(D, a, n, i) \in 0 .. D - 1
         /\ n < D => Slot(D, a, n, i) # a
         /\ n < D => Slot(D, Succ(D, a), n + 1, i) = Slot(D, a, n, i)
         /\ n > 1 /\ i < n => Slot(D, a, n - 1, i) = Slot(D, a, n, i + 1)
<1>1. ASSUME NEW x \in 0 .. D - 1, NEW m \in 0 .. D, NEW j \in 1 .. m
      PROVE  Slot(D, x, m, j) = IF x - m + j - 1 >= 0 THEN x - m + j - 1 ELSE x - m + j - 1 + D
  <2> DEFINE y == x + D - m + j - 1
  <2>1. /\ y \in Int /\ 0 <= y /\ y < 2 * D /\ (x - m + j - 1 >= 0 <=> D <= y)
        /\ y - D = x - m + j - 1 /\ y = x - m + j - 1 + D
    OBVIOUS
  <2>2. Slot(D, x, m, j) = y % D
    BY DEF Slot
  <2> HIDE DEF y
  <2>3. CASE D <= y
    <3>1. y % D = y - D
      BY <2>1, <2>3, ModWrap
    <3> QED BY <2>1, <2>2, <2>3, <3>1
  <2>4. CASE y < D
    <3>1. y % D = y
      BY <2>1, <2>4, ModSmall
    <3> QED BY <2>1, <2>2, <2>4, <3>1
  <2> QED BY <2>1, <2>3, <2>4
<1>2. Slot(D, a, n, i) = IF a - n + i - 1 >= 0 THEN a - n + i - 1 ELSE a - n + i - 1 + D
  BY <1>1
<1>3. n < D => Slot(D, Succ(D, a), n + 1, i) =
                 IF Succ(D, a) - (n + 1) + i - 1 >= 0 THEN Succ(D, a) - (n + 1) + i - 1
                                                       ELSE Succ(D, a) - (n + 1) + i - 1 + D
  <2> SUFFICES ASSUME n < D
               PROVE  Slot(D, Succ(D, a), n + 1, i) =
                        IF Succ(D, a) - (n + 1) + i - 1 >= 0 THEN Succ(D, a) - (n + 1) + i - 1
                                                              ELSE Succ(D, a) - (n + 1) + i - 1 + D
    OBVIOUS
  <2>1. Succ(D, a) \in 0 .. D - 1 /\ n + 1 \in 0 .. D /\ i \in 1 .. n + 1
    BY DEF Succ
  <2> QED BY <1>1, <2>1
<1>4. n < D => Slot(D, Succ(D, a), n + 1, i) = Slot(D, a, n, i)
  BY <1>2, <1>3 DEF Succ
<1>5. n > 1 /\ i < n => Slot(D, a, n - 1, i) = Slot(D, a, n, i + 1)
  <2>1. a + D - (n - 1) + i - 1 = a + D - n + (i + 1) - 1
    OBVIOUS
  <2> QED BY <2>1 DEF Slot
<1>6. Slot(D, a, n, i) \in 0 .. D - 1 /\ (n < D => Slot(D, a, n, i) # a)
  BY <1>2
<1> QED BY <1>2, <1>4, <1>5, <1>6

\* The queue as a function of the slots.
SlotsOfQueue ==
  \A f : Contents(f) = [i \in 1 .. Filled(f) |->
                          buffer[f][Slot(design.depth[f], At(f, "Produce"), Filled(f), i)]]

LEMMA ContentsAre == SlotsOfQueue
  BY DEF SlotsOfQueue, Contents, Slot

LEMMA ContentsNext == SlotsOfQueue'
  BY ContentsAre, PTL

\* Sequences written as functions.
LEMMA SequenceOf ==
  ASSUME NEW n \in Nat, NEW g, g = [i \in 1 .. n |-> g[i]]
  PROVE  g \in Seq({g[i] : i \in 1 .. n}) /\ Len(g) = n
<1> DEFINE S == {g[i] : i \in 1 .. n}
<1>1. g \in [1 .. n -> S]
  OBVIOUS
<1> QED BY <1>1

LEMMA TailSequence ==
  ASSUME NEW n \in Nat \ {0}, NEW g, NEW h, g = [i \in 1 .. n |-> g[i]], h = [i \in 1 .. n - 1 |-> h[i]],
         \A i \in 1 .. n - 1 : h[i] = g[i + 1]
  PROVE  g # <<>> /\ h = Tail(g)
<1>1. g \in Seq({g[i] : i \in 1 .. n}) /\ Len(g) = n
  BY SequenceOf
<1>2. g # <<>>
  BY <1>1
<1>3. Tail(g) = [i \in 1 .. n - 1 |-> g[i + 1]]
  BY <1>1, <1>2
<1> QED BY <1>2, <1>3

LEMMA FrontSequence ==
  ASSUME NEW n \in Nat \ {0}, NEW g, NEW h, g = [i \in 1 .. n - 1 |-> g[i]], h = [i \in 1 .. n |-> h[i]],
         \A i \in 1 .. n - 1 : h[i] = g[i]
  PROVE  Len(g) = n - 1 /\ Len(h) = n /\ Front(h) = g
<1>1. h \in Seq({h[i] : i \in 1 .. n}) /\ Len(h) = n
  BY SequenceOf
<1>2. Len(g) = n - 1
  <2>1. n - 1 \in Nat
    OBVIOUS
  <2> QED BY <2>1, SequenceOf
<1>3. Front(h) = [i \in 1 .. n - 1 |-> h[i]]
  <2>1. Front(h) = SubSeq(h, 1, n - 1)
    BY <1>1 DEF Front
  <2>2. SubSeq(h, 1, n - 1) = [i \in 1 .. n - 1 |-> h[i]]
    BY <1>1
  <2> QED BY <2>1, <2>2
<1> QED BY <1>1, <1>2, <1>3

\* Each move of a fifo is a step of its queue.
LEMMA MovedQueue ==
  ASSUME design \in Designs, Loaded, NEW f \in Fifos, OneToOne(f), design' = design, Moved(f)
  PROVE  LET q == Contents(f)
             r == Contents(f)'
         IN  \/ r = q
             \/ Len(r) = Len(q) + 1 /\ Len(r) <= design.depth[f] /\ Front(r) = q
             \/ q # <<>> /\ r = Tail(q)
<1> DEFINE D == design.depth[f]
           n == Filled(f)
           a == At(f, "Produce")
           q == Contents(f)
           r == Contents(f)'
           slot(i) == Slot(D, a, n, i)
<1>1. Image /\ Engines /\ Units(f)
  BY DEF Loaded, FifoInv
<1>2. /\ D \in Nat \ {0} /\ producer[f] \in Nat /\ consumer[f] \in Nat
      /\ a \in 0 .. D - 1 /\ Busy(f, "Produce") \in {0, 1} /\ Busy(f, "Consume") \in {0, 1}
      /\ n \in Nat /\ n + Busy(f, "Produce") + producer[f] <= D
  BY <1>1, FifoBounds
<1>3. n \in 0 .. D /\ n = consumer[f] + Busy(f, "Consume")
      /\ Filled(f)' = consumer'[f] + Busy(f, "Consume")'
  BY <1>2 DEF Filled
<1>4. /\ q = [i \in 1 .. n |-> buffer[f][slot(i)]]
      /\ r = [i \in 1 .. Filled(f)' |-> buffer'[f][Slot(D, At(f, "Produce")', Filled(f)', i)]]
  BY ContentsAre, ContentsNext DEF SlotsOfQueue
<1>5. \A i \in 1 .. n :
        /\ slot(i) \in 0 .. D - 1
        /\ n < D => slot(i) # a /\ Slot(D, Succ(D, a), n + 1, i) = slot(i)
        /\ n > 1 /\ i < n => Slot(D, a, n - 1, i) = Slot(D, a, n, i + 1)
  <2> HIDE DEF D, n, a
  <2> TAKE i \in 1 .. n
  <2>1. D \in Nat \ {0} /\ a \in 0 .. D - 1 /\ n \in 0 .. D
    BY <1>2, <1>3
  <2>2. /\ Slot(D, a, n, i) \in 0 .. D - 1
        /\ n < D => Slot(D, a, n, i) # a
        /\ n < D => Slot(D, Succ(D, a), n + 1, i) = Slot(D, a, n, i)
        /\ n > 1 /\ i < n => Slot(D, a, n - 1, i) = Slot(D, a, n, i + 1)
    BY <2>1, SlotFacts
  <2> QED BY <2>2
<1>6. n < D /\ OnlyAtProducer(f) => \A i \in 1 .. n : buffer'[f][slot(i)] = buffer[f][slot(i)]
  BY <1>5 DEF OnlyAtProducer
<1> HIDE DEF D, n, a, q, r
<1>7. ASSUME Filled(f)' = n, At(f, "Produce")' = a, buffer'[f] = buffer[f] \/ (n < D /\ OnlyAtProducer(f))
      PROVE  r = q
  <2>1. r = [i \in 1 .. n |-> buffer'[f][slot(i)]]
    BY <1>4, <1>7
  <2>2. \A i \in 1 .. n : buffer'[f][slot(i)] = buffer[f][slot(i)]
    BY <1>6, <1>7
  <2> QED BY <1>4, <2>1, <2>2
<1>8. CASE Stays(f)
  <2>1. Filled(f)' = n /\ At(f, "Produce")' = a
    BY <1>2, <1>3, <1>8 DEF Stays, Rests, Locks, a
  <2>2. buffer'[f] = buffer[f] \/ (n < D /\ OnlyAtProducer(f))
    BY <1>2, <1>8 DEF Stays
  <2> QED BY <1>7, <2>1, <2>2 DEF q, r
<1>9. CASE StartsWrite(f)
  <2>1. Filled(f)' = n /\ At(f, "Produce")' = a
    BY <1>2, <1>3, <1>9 DEF StartsWrite, Rests, Takes, Locks, a
  <2>2. n < D /\ OnlyAtProducer(f)
    BY <1>2, <1>9 DEF StartsWrite, Takes
  <2> QED BY <1>7, <2>1, <2>2 DEF q, r
<1>10. CASE StartsRead(f)
  <2>1. Filled(f)' = n /\ At(f, "Produce")' = a /\ buffer'[f] = buffer[f]
    BY <1>2, <1>3, <1>10 DEF StartsRead, Rests, Takes, Locks, a
  <2> QED BY <1>7, <2>1 DEF q, r
<1>11. CASE EndsWrite(f)
  <2>1. Filled(f)' = n + 1 /\ At(f, "Produce")' = Succ(D, a)
    BY <1>2, <1>3, <1>11 DEF EndsWrite, Rests, Gives, Locks, a, D
  <2>2. n < D /\ OnlyAtProducer(f)
    BY <1>2, <1>11 DEF EndsWrite, Gives
  <2>3. r = [i \in 1 .. n + 1 |-> buffer'[f][Slot(D, Succ(D, a), n + 1, i)]]
    BY <1>4, <2>1
  <2>4. \A i \in 1 .. n : r[i] = q[i]
    <3> TAKE i \in 1 .. n
    <3>1. r[i] = buffer'[f][Slot(D, Succ(D, a), n + 1, i)]
      BY <1>2, <2>3
    <3>2. r[i] = buffer'[f][slot(i)]
      BY <1>5, <2>2, <3>1
    <3>3. q[i] = buffer[f][slot(i)]
      BY <1>4
    <3> QED BY <1>6, <2>2, <3>2, <3>3
  <2>5. q = [i \in 1 .. n |-> q[i]] /\ r = [i \in 1 .. n + 1 |-> r[i]]
    BY <1>4, <2>3
  <2>6. Len(q) = n /\ Len(r) = n + 1 /\ Front(r) = q
    <3> DEFINE m == n + 1
    <3>1. n \in Nat /\ m \in Nat /\ m = n + 1 /\ r = [i \in 1 .. m |-> r[i]]
      BY <1>2, <2>5
    <3> HIDE DEF m
    <3>2. m \in Nat \ {0} /\ n = m - 1
      BY <3>1
    <3>3. q = [i \in 1 .. m - 1 |-> q[i]] /\ \A i \in 1 .. m - 1 : r[i] = q[i]
      BY <2>4, <2>5, <3>2
    <3>4. r = [i \in 1 .. m |-> r[i]]
      BY <3>1
    <3>5. Len(q) = m - 1 /\ Len(r) = m /\ Front(r) = q
      BY <3>2, <3>3, <3>4, FrontSequence
    <3> QED BY <3>1, <3>2, <3>5
  <2>7. n + 1 <= D
    BY <1>2, <2>2
  <2> QED BY <2>6, <2>7 DEF q, r, D
<1>12. CASE EndsRead(f)
  <2>1. /\ Filled(f)' = n - 1 /\ At(f, "Produce")' = a /\ buffer'[f] = buffer[f] /\ n \in Nat \ {0}
    BY <1>2, <1>3, <1>12 DEF EndsRead, Rests, Gives, Locks, a
  <2>2. r = [i \in 1 .. n - 1 |-> buffer[f][Slot(D, a, n - 1, i)]]
    BY <1>4, <2>1
  <2>3. \A i \in 1 .. n - 1 : r[i] = q[i + 1]
    <3> TAKE i \in 1 .. n - 1
    <3>1. i \in 1 .. n /\ i + 1 \in 1 .. n /\ n > 1 /\ i < n
      BY <2>1
    <3>2. r[i] = buffer[f][Slot(D, a, n - 1, i)]
      BY <2>2
    <3>3. q[i + 1] = buffer[f][Slot(D, a, n, i + 1)]
      BY <1>4, <3>1
    <3> QED BY <1>5, <3>1, <3>2, <3>3
  <2>4. q = [i \in 1 .. n |-> q[i]] /\ r = [i \in 1 .. n - 1 |-> r[i]]
    BY <1>4, <2>2
  <2>5. q # <<>> /\ r = Tail(q)
    BY <2>1, <2>3, <2>4, TailSequence
  <2> QED BY <2>5 DEF q, r
<1> QED BY <1>8, <1>9, <1>10, <1>11, <1>12 DEF Moved

\* The consumer of a fifo with one user at each end reads the oldest object of
\* the queue, never one that is still being written or that was read before.
THEOREM ConsumersReadOldest == ArraySpec => []ReadsOldest
<1>1. IInv => ReadsOldest
  <2> SUFFICES ASSUME IInv, stage = "run", NEW f \in Fifos, OneToOne(f),
                      NEW b \in DOMAIN buffer[f], Reading(f, b)
               PROVE  Queue(f) # <<>> /\ buffer[f][b] = Head(Queue(f))
    BY DEF ReadsOldest
  <2> DEFINE D == design.depth[f]
             n == Filled(f)
             a == At(f, "Produce")
             q == Contents(f)
  <2>1. design \in Designs /\ Loaded /\ Image /\ Engines /\ Units(f) /\ InTurn(f)
    BY DEF IInv, Loaded, FifoInv
  <2>2. Busy(f, "Consume") = 1 /\ At(f, "Consume") = b
    BY <2>1, UsersAreAt
  <2>3. /\ D \in Nat \ {0} /\ a \in 0 .. D - 1 /\ b \in 0 .. D - 1
        /\ n \in 1 .. D /\ n = consumer[f] + 1
    <3>1. /\ D \in Nat \ {0} /\ a \in 0 .. D - 1 /\ b \in 0 .. D - 1 /\ consumer[f] \in Nat
          /\ producer[f] \in Nat /\ Busy(f, "Produce") \in {0, 1}
          /\ n \in Nat /\ n + Busy(f, "Produce") + producer[f] <= D
      BY <2>1, <2>2, FifoBounds
    <3>2. n = consumer[f] + 1
      BY <2>2 DEF Filled
    <3> QED BY <3>1, <3>2
  <2>4. a \in {b + n, b + n - D}
    BY <2>1, <2>2 DEF InTurn
  <2>5. q = [i \in 1 .. n |-> buffer[f][Slot(D, a, n, i)]]
    BY ContentsAre DEF SlotsOfQueue
  <2> HIDE DEF D, n, a, q
  <2>6. Slot(D, a, n, 1) = b
    <3>1. n \in 0 .. D /\ 1 \in 1 .. n
      BY <2>3
    <3>2. ASSUME NEW i \in 1 .. n
          PROVE  Slot(D, a, n, i) = IF a - n + i - 1 >= 0 THEN a - n + i - 1 ELSE a - n + i - 1 + D
      <4>1. D \in Nat \ {0} /\ a \in 0 .. D - 1 /\ n \in 0 .. D
        BY <2>3, <3>1
      <4> QED BY <4>1, SlotFacts
    <3>3. Slot(D, a, n, 1) = IF a - n >= 0 THEN a - n ELSE a - n + D
      BY <2>3, <3>1, <3>2
    <3> QED BY <2>3, <2>4, <3>3
  <2>7. q[1] = buffer[f][b]
    BY <2>3, <2>5, <2>6
  <2>8. q # <<>> /\ Head(q) = q[1]
    <3>1. n \in Nat /\ q = [i \in 1 .. n |-> q[i]]
      BY <2>3, <2>5
    <3>2. q \in Seq({q[i] : i \in 1 .. n}) /\ Len(q) = n
      BY <3>1, SequenceOf
    <3> QED BY <2>3, <3>2
  <2>9. Queue(f) = q
    BY DEF Queue, q
  <2> QED BY <2>7, <2>8, <2>9
<1> QED BY <1>1, FifosInductive, PTL

\* Every step of the array is a step of the queues.
LEMMA QueueSteps ==
  ASSUME IInv, [Loads \/ Refuse \/ Run]_vars, NEW f \in AllFifos
  PROVE  LET q == Queue(f)
             r == Queue(f)'
         IN  \/ r = q
             \/ Len(r) = Len(q) + 1 /\ Len(r) <= Depth(f) /\ Front(r) = q
             \/ q # <<>> /\ r = Tail(q)
<1>1. CASE Loads
  <2>0. PICK blocks, code : Load(blocks, code)
    BY <1>1 DEF Loads
  <2>1. design' = design /\ stage = "compile"
    BY <2>0 DEF Load
  <2>2. Queue(f) = <<>>
    BY <2>1 DEF Queue
  <2>3. ASSUME f \in Fifos, OneToOne(f) PROVE Filled(f)' = 0
    <3>1. Units(f)' /\ Image' /\ Engines' /\ design \in Designs
      BY <1>1, <2>3, LoadsFifo, LoadsImage DEF IInv, FifoInv
    <3>2. consumer'[f] = 0 /\ producer'[f] = producerLockInitValue(f)
      BY <2>0, <2>3 DEF Load
    <3>3. producerLockInitValue(f) \in Nat
      BY <2>3, <3>1, OneUnit, DesignFacts
    <3>4. Busy(f, "Produce")' \in {0, 1} /\ Busy(f, "Consume")' \in {0, 1}
      <4>1. EndsInRange'
        BY EndRange, PTL
      <4>2. f \in Fifos' /\ OneToOne(f)' /\ design' \in Designs
        BY <2>1, <2>3, <3>1, DesignKept
      <4> QED BY <4>1, <4>2, <3>1 DEF Ports, EndsInRange
    <3> QED BY <2>1, <3>1, <3>2, <3>3, <3>4, DesignKept DEF Units, Filled
  <2>4. ASSUME f \in Fifos, OneToOne(f) PROVE Contents(f)' = <<>>
    BY <2>3, <2>4, ContentsNext DEF SlotsOfQueue
  <2>5. Queue(f)' = <<>>
    BY <2>1, <2>4, DesignKept DEF Queue
  <2> QED BY <2>2, <2>5
<1>2. CASE Refuse
  BY <1>2 DEF Refuse, Queue
<1>3. CASE Run
  <2>0. design' = design /\ stage = "run" /\ stage' = "run" /\ design \in Designs /\ Loaded
    BY <1>3, RunFrame DEF IInv
  <2>1. CASE f \in Fifos /\ OneToOne(f)
    <3>1. Moved(f)
      BY <1>3, <2>0, <2>1, RunMoves
    <3>2. Queue(f) = Contents(f) /\ Queue(f)' = Contents(f)' /\ Depth(f) = design.depth[f]
      BY <2>0, <2>1, DesignKept DEF Queue, Depth
    <3>3. \/ Contents(f)' = Contents(f)
          \/ /\ Len(Contents(f)') = Len(Contents(f)) + 1 /\ Len(Contents(f)') <= design.depth[f]
             /\ Front(Contents(f)') = Contents(f)
          \/ Contents(f) # <<>> /\ Contents(f)' = Tail(Contents(f))
      BY <2>0, <2>1, <3>1, MovedQueue
    <3> QED BY <3>2, <3>3
  <2>2. CASE ~(f \in Fifos /\ OneToOne(f))
    BY <2>0, <2>2, DesignKept DEF Queue
  <2> QED BY <2>1, <2>2
<1>4. CASE UNCHANGED vars
  <2>0. UNCHANGED <<design, stage, image, producer, consumer, buffer, channel, core>>
    BY <1>4 DEF vars
  <2>1. ASSUME f \in Fifos, OneToOne(f) PROVE Contents(f)' = Contents(f)
    <3>1. Rests(f, "Produce") /\ Rests(f, "Consume")
      BY <2>0, <2>1, EndRests DEF Ports
    <3>2. Filled(f)' = Filled(f)
      BY <2>0, <3>1 DEF Rests, Filled
    <3> QED BY <2>0, <3>1, <3>2, ContentsAre, ContentsNext DEF SlotsOfQueue, Rests
  <2>2. Queue(f)' = Queue(f)
    BY <2>0, <2>1, DesignKept DEF Queue
  <2> QED BY <2>2
<1> QED BY <1>1, <1>2, <1>3, <1>4

\* A fifo with one user at each end implements the queue of FifoContract, for
\* every depth, every split into descriptors and every text in step.
THEOREM FifosActAsQueues == ArraySpec => ActsAsQueue
<1>1. Init => Contract!Init
  <2>1. Init => \A f \in AllFifos : Queue(f) = <<>>
    BY DEF Init, Queue
  <2> QED BY <2>1 DEF Contract!Init
<1>2. IInv /\ [Loads \/ Refuse \/ Run]_vars => [Contract!Next]_(Contract!vars)
  <2> SUFFICES ASSUME IInv, [Loads \/ Refuse \/ Run]_vars PROVE Contract!Next
    OBVIOUS
  <2>1. design' = design
    BY RunFrame DEF Loads, Load, Refuse, vars
  <2>2. \A f : Depth(f)' = Depth(f)
    BY <2>1, DesignKept DEF Depth
  <2>3. ASSUME NEW f \in AllFifos PROVE Contract!Keep(f) \/ Contract!Put(f) \/ Contract!Get(f)
    <3>1. \/ Queue(f)' = Queue(f)
          \/ /\ Len(Queue(f)') = Len(Queue(f)) + 1 /\ Len(Queue(f)') <= Depth(f)
             /\ Front(Queue(f)') = Queue(f)
          \/ Queue(f) # <<>> /\ Queue(f)' = Tail(Queue(f))
      BY QueueSteps
    <3>2. /\ [g \in AllFifos |-> Queue(g)][f] = Queue(f)
          /\ [g \in AllFifos |-> Queue(g)]'[f] = Queue(f)'
          /\ [g \in AllFifos |-> Depth(g)][f] = Depth(f)
      OBVIOUS
    <3> QED BY <3>1, <3>2 DEF Contract!Keep, Contract!Put, Contract!Get, Contract!Front, Front
  <2> QED BY <2>2, <2>3 DEF Contract!Next
<1> QED BY <1>1, <1>2, FifosInductive, PTL DEF ArraySpec, ActsAsQueue, Contract!Spec
=============================================================================
