------------------------------ MODULE CoreLocks ------------------------------
(***************************************************************************)
(* How the compiler turns the accesses of a core to its logical object     *)
(* fifos into uses of locks: AMDAIEAccessToAcquireRelease,                 *)
(* AMDAIEInsertInfiniteLoopAroundCoreBlock and                             *)
(* AMDAIEAcquireReleaseToUseLock.                                          *)
(*                                                                         *)
(* The body of a core is a block: a sequence of accesses, acquires,        *)
(* releases and scf.for loops, a loop with its trip count and its own      *)
(* block.  What the core computes between them is left out.  A fifo is     *)
(* read or written by a core, never both.                                  *)
(***************************************************************************)
EXTENDS Naturals, SequencesExt, FiniteSetsExt

Access(f, t) == [op |-> "access", fifo |-> f, type |-> t]
Acquire(f, p) == [op |-> "acquire", fifo |-> f, port |-> p]
Release(f, p) == [op |-> "release", fifo |-> f, port |-> p]
For(n, b) == [op |-> "for", trips |-> n, body |-> b]

IsFor(x) == x.op = "for"

\* The operations of a block in program order, each loop body once.
RECURSIVE OpsOf(_)
OpsOf(block) ==
  FlattenSeq([i \in DOMAIN block |-> IF IsFor(block[i]) THEN OpsOf(block[i].body) ELSE <<block[i]>>])

ItemOps(x) == OpsOf(<<x>>)

\* The number of operations o \in S in the items of block before item i.
CountBefore(block, i, S) == Len(SelectSeq(OpsOf(SubSeq(block, 1, i - 1)), LAMBDA o : o \in S))

---------------------------------------------------------------------------
(* AMDAIEAccessToAcquireRelease                                            *)

Reads(x) == {o.fifo : o \in {q \in Range(ItemOps(x)) : q.op = "access" /\ q.type = "Read"}}

\* Mutant of Pending: nothing is released at the end of a block.
NotAtTheEnd(block, i) == IF i > Len(block) THEN {} ELSE UNION {Reads(block[j]) : j \in 1 .. i - 1}

\* The fifos whose direct read access in the block is the last one before item i.
Pending(block, i) ==
  {f \in UNION {Reads(block[j]) : j \in 1 .. i - 1} :
     LET last == Max({j \in 1 .. i - 1 : f \in Reads(block[j])}) IN ~IsFor(block[last])}

ReleaseAll(S, port) == LET s == SetToSeq(S) IN [i \in DOMAIN s |-> Release(s[i], port)]

\* A read acquires at the access and releases before the item of its own block
\* that holds the next read of the fifo, or at the end of the block.
RECURSIVE readAccessToAcquireRelease(_)
readAccessToAcquireRelease(block) ==
  FlattenSeq([i \in DOMAIN block |->
     ReleaseAll(Pending(block, i) \cap Reads(block[i]), "Consume") \o
     <<IF IsFor(block[i])
         THEN For(block[i].trips, readAccessToAcquireRelease(block[i].body))
         ELSE IF block[i].type = "Read" THEN Acquire(block[i].fifo, "Consume") ELSE block[i]>>])
  \o ReleaseAll(Pending(block, Len(block) + 1), "Consume")

IsAccess(x, f) == x.op = "access" /\ x.fifo = f

\* One written fifo: types are those of its accesses in program order, n of
\* which come before the block.  Every write acquires before the very first
\* access of the fifo, and releases before the access after it or, the last
\* one, at the end of its block.
RECURSIVE WriteFifo(_, _, _, _)
WriteFifo(f, types, block, n) ==
  LET accesses == {Access(f, t) : t \in {"Read", "Write", "None", "Any"}}
      number(i) == n + CountBefore(block, i, accesses) + 1
      acquires == [w \in 1 .. Cardinality({j \in DOMAIN types : types[j] = "Write"}) |->
                     Acquire(f, "Produce")]
  IN  FlattenSeq([i \in DOMAIN block |->
         IF IsFor(block[i])
           THEN <<For(block[i].trips, WriteFifo(f, types, block[i].body, number(i) - 1))>>
         ELSE IF ~IsAccess(block[i], f) THEN <<block[i]>>
         ELSE IF number(i) = 1 THEN acquires
         ELSE IF types[number(i) - 1] = "Write" THEN <<Release(f, "Produce")>>
         ELSE <<>>])
      \o (IF \E i \in DOMAIN block :
               IsAccess(block[i], f) /\ number(i) = Len(types) /\ types[Len(types)] = "Write"
            THEN <<Release(f, "Produce")>> ELSE <<>>)

writeAccessToAcquireRelease(block) ==
  LET left == SelectSeq(OpsOf(block), LAMBDA o : o.op = "access")
      typesOf(f) == LET own == SelectSeq(left, LAMBDA o : o.fifo = f)
                    IN  [i \in DOMAIN own |-> own[i].type]
      convert(f, b) == WriteFifo(f, typesOf(f), b, 0)
  IN  FoldSet(convert, block, {o.fifo : o \in Range(left)})

---------------------------------------------------------------------------
(* AMDAIEInsertInfiniteLoopAroundCoreBlock                                 *)

Lcm(S) == Min({m \in 1 .. ProductSet(S) : \A d \in S : m % d = 0})

AcquireOps(block) == SelectSeq(OpsOf(block), LAMBDA o : o.op = "acquire")

\* Mutant of addDepthLoopAroundCoreCodeBlock: the endless loop alone.
NoDepthLoop(block, depth) == block

\* The loop over the least common multiple of the depths; the endless loop
\* around it is how FifoEngines runs the block.
addDepthLoopAroundCoreCodeBlock(block, depth) ==
  <<For(Lcm({depth[o.fifo] : o \in Range(AcquireOps(block))}), block)>>

---------------------------------------------------------------------------
(* AMDAIEAcquireReleaseToUseLock                                           *)

\* A loop of one trip becomes its body, in the block around it.
promoteIfSingleIteration(trips, body) ==
  IF trips = 1 THEN body ELSE <<For(trips, body)>>

\* The canonicalizer before the pass: a loop of one trip is inlined, one of
\* none is erased.
RECURSIVE canonicalize(_)
canonicalize(block) ==
  FlattenSeq([i \in DOMAIN block |->
     IF ~IsFor(block[i]) THEN <<block[i]>>
     ELSE IF block[i].trips = 0 THEN <<>>
     ELSE promoteIfSingleIteration(block[i].trips, canonicalize(block[i].body))])

\* mlir::loopUnrollByFactor: a loop over k copies of the body, and the rest of
\* the trips as a loop of its own over one copy.
loopUnrollByFactor(trips, body, k) ==
  promoteIfSingleIteration(trips \div k, FlattenSeq([c \in 1 .. k |-> body]))
  \o (IF trips % k = 0 THEN <<>> ELSE promoteIfSingleIteration(trips % k, body))

\* Mutant of coreLoopUnroll: no loop is unrolled.
LoopsAsTheyAre(block, depth) == block

\* Inner loops first; the factor comes from the acquires of the loop's own
\* block, with those that unrolling the inner loops has brought there.
RECURSIVE coreLoopUnroll(_, _)
coreLoopUnroll(block, depth) ==
  FlattenSeq([i \in DOMAIN block |->
     IF ~IsFor(block[i]) THEN <<block[i]>>
     ELSE LET inner == coreLoopUnroll(block[i].body, depth)
              k == Lcm({depth[o.fifo] : o \in {q \in Range(inner) : q.op = "acquire"}})
          IN  IF k = 1 THEN <<For(block[i].trips, inner)>>
              ELSE loopUnrollByFactor(block[i].trips, inner, k)])

\* The buffer of an acquire is fixed by its place in the program text: the
\* number of acquires of the fifo before it, modulo the number of buffers.
RECURSIVE acquireToUseLock(_, _, _)
acquireToUseLock(block, depth, seen) ==
  LET before(f, i) == seen[f] + CountBefore(block, i, {Acquire(f, "Consume"), Acquire(f, "Produce")})
  IN  [i \in DOMAIN block |->
         IF IsFor(block[i])
           THEN For(block[i].trips,
                    acquireToUseLock(block[i].body, depth, [f \in DOMAIN seen |-> before(f, i)]))
         ELSE IF block[i].op = "acquire"
           THEN [op |-> "acquire", fifo |-> block[i].fifo, port |-> block[i].port,
                 buffer |-> before(block[i].fifo, i) % depth[block[i].fifo]]
         ELSE block[i]]

\* The instructions one round of the endless loop executes.
RECURSIVE Execution(_)
Execution(block) ==
  FlattenSeq([i \in DOMAIN block |->
     IF IsFor(block[i])
       THEN FlattenSeq([t \in 1 .. block[i].trips |-> Execution(block[i].body)])
       ELSE <<block[i]>>])

\* The passes in the order of addAMDAIEToAIEPasses.
LowerCore(block, depth) ==
  LET locked == writeAccessToAcquireRelease(readAccessToAcquireRelease(block))
      looped == addDepthLoopAroundCoreCodeBlock(locked, depth)
      unrolled == coreLoopUnroll(canonicalize(looped), depth)
  IN  Execution(acquireToUseLock(unrolled, depth, [f \in DOMAIN depth |-> 0]))
=============================================================================
