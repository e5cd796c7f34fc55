--------------------------- MODULE DmaComposition ---------------------------
(***************************************************************************)
(* AMDAIEDmaComposition: the greedy rewriting of the control code that     *)
(* turns loops of DMA operations into few operations with large access     *)
(* patterns.  Five patterns (subsuming a loop, combining two operations    *)
(* and the three of the canonicalisation) are applied in any order until   *)
(* none of them matches; then the waits are moved to the block of their    *)
(* DMA operation.                                                          *)
(*                                                                         *)
(* The control code is a block, a sequence of operations:                  *)
(*   dma      an npu.dma_cpy_nd (kind "npu") or npu.circular_dma_cpy_nd on *)
(*            a connection: its ends (the fifo operands), its patterns src *)
(*            and dst, its token id and the token's type, "none" without   *)
(*   wait     npu.dma_wait on a set of tokens                              *)
(*   barrier  npu.barrier                                                  *)
(*   for      scf.for with constant bounds; iv numbers its variable        *)
(* The scf.for of the control code come from AMDAIEControlCodeForallToFor, *)
(* so scf.forall is not here.  An affine.apply of an outer loop's variable *)
(* stands outside the inner loop.                                          *)
(***************************************************************************)
EXTENDS DmaUtils

CONSTANTS
  Programs,        \* the control codes to compose
  SourceConfig,    \* connection -> the DmaDimConfig of its source
  TargetConfig,    \* connection -> the DmaDimConfig of its target
  MaxRepeatCount   \* deviceModel.getMaxRepeatCount(SHIMNOC)

VARIABLES
  given,     \* the program the pass started from
  program,   \* the program now
  stage      \* "rewrite", "done" or "failed"

vars == <<given, program, stage>>

Dma(kind, conn, ends, src, dst, id, type) ==
  [op |-> "dma", kind |-> kind, conn |-> conn, ends |-> ends, src |-> src, dst |-> dst,
   id |-> id, type |-> type]
Wait(ids) == [op |-> "wait", ids |-> ids]
Barrier == [op |-> "barrier"]
For(iv, lb, ub, step, body) ==
  [op |-> "for", iv |-> iv, lb |-> lb, ub |-> ub, step |-> step, body |-> body]

IsDma(x) == x.op = "dma"
IsFor(x) == x.op = "for"
Circular(x) == x.kind = "circular"

---------------------------------------------------------------------------
(* Blocks by their path: the indices of the loops around them              *)

RECURSIVE OpsOf(_)
OpsOf(block) ==
  FlattenSeq([i \in DOMAIN block |-> IF IsFor(block[i]) THEN OpsOf(block[i].body) ELSE <<block[i]>>])

RECURSIVE BlockPaths(_)
BlockPaths(block) ==
  {<<>>} \cup UNION {{<<i>> \o p : p \in BlockPaths(block[i].body)} : i \in {j \in DOMAIN block : IsFor(block[j])}}

BlockAt(block, path) == FoldLeft(LAMBDA b, i : b[i].body, block, path)

RECURSIVE WithBlock(_, _, _)
WithBlock(block, path, new) ==
  IF path = <<>> THEN new
  ELSE [block EXCEPT ![path[1]].body = WithBlock(@, Tail(path), new)]

RECURSIVE EraseWaits(_, _)
EraseWaits(block, id) ==
  LET kept == SelectSeq(block, LAMBDA x : ~(x.op = "wait" /\ id \in x.ids))
  IN  [i \in DOMAIN kept |-> IF IsFor(kept[i]) THEN [kept[i] EXCEPT !.body = EraseWaits(@, id)] ELSE kept[i]]

\* The operations that use a connection, in program order.
UsersOf(block, conn) == SelectSeq(OpsOf(block), LAMBDA x : IsDma(x) /\ x.conn = conn)

---------------------------------------------------------------------------
(* AMDAIEDmaLoopSubsumption                                                *)

calculateNbIterations(loop) == 1 + (loop.ub - loop.lb - 1) \div loop.step

\* Every offset that depends on the loop gives a dimension; without one the
\* loop is a repetition.
addIterationToNewAccessPattern(dims, loop) ==
  LET n == calculateNbIterations(loop)
      depends(d) == d.offset.iv = loop.iv
      dependent == SelectSeq(dims, depends)
      inserted ==
        IF n = 1 THEN <<>>
        ELSE IF dependent = <<>> THEN <<Dim(Zero, n, 0)>>
        ELSE [i \in DOMAIN dependent |->
                Dim(Zero, n, dependent[i].stride * dependent[i].offset.scale * loop.step)]
      updated == [i \in DOMAIN dims |->
                    IF depends(dims[i])
                      THEN [dims[i] EXCEPT !.offset = Constant(@.base + loop.lb * @.scale)]
                      ELSE dims[i]]
  IN  IF dims = <<>> THEN <<>> ELSE inserted \o updated

\* The other users of the connection allow the operation to leave the loop.
hasOtherUsersInSameScope(body, x) == Len(UsersOf(body, x.conn)) > 1

doesCircularDmaHaveUsersBlockingSubsumption(body, i) ==
  \/ UsersOf(SubSeq(body, 1, i - 1), body[i].conn) # <<>>
  \/ \E u \in Range(UsersOf(SubSeq(body, i + 1, Len(body)), body[i].conn)) : Circular(u)

\* A side has room for the loop, and its outer dimension is no repetition yet
\* (the pass's default onlyZeroStrideOnOuterDim).
HasRoom(config, x, dims, loop) ==
  LET units == Len(SelectSeq(dims, LAMBDA d : d.size = 1))
      more == IF calculateNbIterations(loop) > 1 THEN 1 ELSE 0
  IN  /\ ~exceedsNbDims(config, Circular(x), Len(dims) - units + more)
      /\ Circular(x) \/ dims = <<>> \/ dims[1].stride # 0

\* The operation with the loop as dimensions of its two patterns.
Subsumed(x, loop) ==
  [x EXCEPT !.src = addIterationToNewAccessPattern(@, loop), !.dst = addIterationToNewAccessPattern(@, loop)]

rewriteWithLoopLikeOpParent(x, loop) ==
  {y \in {Subsumed(x, loop)} :
     /\ Circular(x) \/ calculateNbIterations(loop) <= MaxRepeatCount
     /\ HasRoom(SourceConfig[x.conn], x, x.src, loop)
     /\ HasRoom(TargetConfig[x.conn], x, x.dst, loop)
     /\ x.src = <<>> \/ isValidAccessPattern(SourceConfig[x.conn], Circular(x), y.src)
     /\ x.dst = <<>> \/ isValidAccessPattern(TargetConfig[x.conn], Circular(x), y.dst)}

\* The programs after subsuming the loop around operation i of the block.
SubsumeLoopIntoDMA(path, i) ==
  LET outer == BlockAt(program, Front(path))
      k == Last(path)
      loop == outer[k]
      x == loop.body[i]
      shell == [loop EXCEPT !.body = RemoveAt(@, i)]
      hoisted(y) == SubSeq(outer, 1, k - 1) \o <<y, shell>> \o SubSeq(outer, k + 1, Len(outer))
      blocked == IF Circular(x) THEN doesCircularDmaHaveUsersBlockingSubsumption(loop.body, i)
                 ELSE hasOtherUsersInSameScope(loop.body, x)
  IN  IF path = <<>> \/ blocked THEN {}
      ELSE {WithBlock(program, Front(path), hoisted(y)) : y \in rewriteWithLoopLikeOpParent(x, loop)}

---------------------------------------------------------------------------
(* AMDAIECombineStridedOps                                                 *)

\* Mutant of findNextDmaOpWithSameConnection: barriers are passed.
NextPastBarriers(block, i) ==
  LET met == {j \in i + 1 .. Len(block) : UsersOf(<<block[j]>>, block[i].conn) # <<>>}
  IN  IF met = {} THEN {}
      ELSE {j \in {Min(met)} : IsDma(block[j]) /\ block[j].kind = block[i].kind}

\* The place in the block of the next operation on the connection, when
\* nothing in between forbids to go there.
findNextDmaOpWithSameConnection(block, i) ==
  LET meets(j) == \E x \in Range(OpsOf(<<block[j]>>)) :
                     x.op = "barrier" \/ (IsDma(x) /\ x.conn = block[i].conn)
      met == {j \in i + 1 .. Len(block) : meets(j)}
  IN  IF met = {} THEN {}
      ELSE {j \in {Min(met)} : IsDma(block[j]) /\ block[j].kind = block[i].kind}

\* Mutant of createCombinedDoublyStridedOp: the tokens are not compared.
AnyToken(x, y, src, dst) ==
  {[x EXCEPT !.src = s, !.dst = d, !.id = y.id, !.type = y.type] : s \in src, d \in dst}

\* The combined operation stands in the place of the first one and has the
\* token of the second.
createCombinedDoublyStridedOp(x, y, src, dst) ==
  {[x EXCEPT !.src = s, !.dst = d, !.id = y.id, !.type = y.type] :
     s \in src, d \in IF x.type \in {"none", y.type} THEN dst ELSE {}}

CombineStridedOps(path, i) ==
  LET block == BlockAt(program, path)
      x == block[i]
      waits == {w \in Range(OpsOf(program)) : w.op = "wait" /\ x.type # "none" /\ x.id \in w.ids}
      next == {j \in findNextDmaOpWithSameConnection(block, i) : Circular(x) \/ block[j].ends = x.ends}
      \* The limits of the source hold for both sides, as in the code.
      combine(p, q) == combineAccessPatterns(p, q, SourceConfig[x.conn], Circular(x))
      combined(j) == createCombinedDoublyStridedOp(x, block[j],
                       combine(x.src, block[j].src), combine(x.dst, block[j].dst))
      replaced(j, z) == WithBlock(program, path, RemoveAt([block EXCEPT ![i] = z], j))
  IN  IF \E w \in waits : Cardinality(w.ids) # 1 THEN {}
      ELSE UNION {{IF waits = {} THEN replaced(j, z) ELSE EraseWaits(replaced(j, z), x.id)
                     : z \in combined(j)} : j \in next}

---------------------------------------------------------------------------
(* AMDAIECanonicalizeDoublyStridedOp                                       *)

\* The operation with new patterns, if one of them changed.
Replaced(path, i, src, dst) ==
  LET block == BlockAt(program, path)
      y == [block[i] EXCEPT !.src = src, !.dst = dst]
  IN  IF y = block[i] THEN {} ELSE {WithBlock(program, path, [block EXCEPT ![i] = y])}

FoldDmaOpUnitDims(path, i) ==
  LET x == BlockAt(program, path)[i] IN Replaced(path, i, foldUnitDims(x.src), foldUnitDims(x.dst))

\* Mutant of FoldDmaOpLinearDims: the limits of the device are not looked at.
FoldWithoutLimits(path, i) ==
  LET x == BlockAt(program, path)[i]
  IN  Replaced(path, i, foldLinearDims(x.src, <<>>), foldLinearDims(x.dst, <<>>))

FoldDmaOpLinearDims(path, i) ==
  LET x == BlockAt(program, path)[i]
      fold(dims, config) == foldLinearDims(dims, getMaxSizes(config, Circular(x), Len(dims)))
  IN  Replaced(path, i, fold(x.src, SourceConfig[x.conn]), fold(x.dst, TargetConfig[x.conn]))

ExpandSingleDimIntoLinearDims(path, i) ==
  LET x == BlockAt(program, path)[i]
      expand(dims, config) == expandLargeDimIntoLinearDims(dims, getMaxSizes(config, Circular(x), Len(dims)))
  IN  Replaced(path, i, expand(x.src, SourceConfig[x.conn]), expand(x.dst, TargetConfig[x.conn]))

---------------------------------------------------------------------------
(* moveNpuDmaSyncUsersAfterAncestorInSameBlock                             *)

BlocksWith(block, x) == {p \in BlockPaths(block) : x \in Range(BlockAt(block, p))}

\* Mutant of MoveWait: the wait stays where it is.
WaitStays(block, w) == {block}

\* The wait goes after the operation that holds it in the block of its DMAs.
MoveWait(block, w) ==
  LET from == CHOOSE p \in BlocksWith(block, w) : TRUE
      homes == {p \in BlockPaths(block) :
                  \E x \in Range(BlockAt(block, p)) : IsDma(x) /\ x.type # "none" /\ x.id \in w.ids}
      moved(home) ==
        LET without == WithBlock(block, from, Remove(BlockAt(block, from), w))
        IN  WithBlock(without, home, InsertAt(BlockAt(without, home), from[Len(home) + 1] + 1, w))
  IN  {IF home = from THEN block ELSE moved(home) :
         home \in {h \in homes : homes = {h} /\ IsPrefix(h, from)}}

\* The waits of the program one after the other, in the order of the walk.
MovedWaits(block) ==
  FoldLeft(LAMBDA blocks, w : UNION {MoveWait(b, w) : b \in blocks}, {block},
           SelectSeq(OpsOf(block), LAMBDA x : x.op = "wait"))

---------------------------------------------------------------------------

\* Every place of the program an operation pattern is tried at.
Places == UNION {{<<p, i>> : i \in {j \in DOMAIN BlockAt(program, p) : IsDma(BlockAt(program, p)[j])}}
                 : p \in BlockPaths(program)}

RewrittenAt(place) ==
  UNION {SubsumeLoopIntoDMA(place[1], place[2]), CombineStridedOps(place[1], place[2]),
         FoldDmaOpUnitDims(place[1], place[2]), FoldDmaOpLinearDims(place[1], place[2]),
         ExpandSingleDimIntoLinearDims(place[1], place[2])}

Init ==
  /\ given \in Programs
  /\ program = given
  /\ stage = "rewrite"

Rewrite(results) ==
  /\ stage = "rewrite"
  /\ program' \in results
  /\ UNCHANGED <<given, stage>>

Subsume == \E p \in Places : Rewrite(SubsumeLoopIntoDMA(p[1], p[2]))
Combine == \E p \in Places : Rewrite(CombineStridedOps(p[1], p[2]))
FoldUnits == \E p \in Places : Rewrite(FoldDmaOpUnitDims(p[1], p[2]))
FoldLinear == \E p \in Places : Rewrite(FoldDmaOpLinearDims(p[1], p[2]))
Expand == \E p \in Places : Rewrite(ExpandSingleDimIntoLinearDims(p[1], p[2]))

NormalForm == \A p \in Places : RewrittenAt(p) = {}

MoveSyncUsers ==
  /\ stage = "rewrite" /\ NormalForm
  /\ IF MovedWaits(program) = {}
       THEN stage' = "failed" /\ UNCHANGED program
       ELSE stage' = "done" /\ program' \in MovedWaits(program)
  /\ UNCHANGED given

Next == Subsume \/ Combine \/ FoldUnits \/ FoldLinear \/ Expand \/ MoveSyncUsers

Spec == Init /\ [][Next]_vars

\* The greedy driver goes on until nothing matches.
FairSpec == Spec /\ WF_vars(Next)

---------------------------------------------------------------------------
(* What a control code does                                                *)

\* The operations it executes, loops run and patterns turned into addresses.
RECURSIVE Execution(_, _)
Execution(block, ivs) ==
  FlattenSeq([i \in DOMAIN block |->
     LET x == block[i]
     IN  IF IsFor(x)
           THEN FlattenSeq([t \in 1 .. calculateNbIterations(x) |->
                  Execution(x.body, [v \in DOMAIN ivs \cup {x.iv} |->
                     IF v = x.iv THEN x.lb + (t - 1) * x.step ELSE ivs[v]])])
         ELSE IF IsDma(x)
           THEN <<[x EXCEPT !.src = Addresses(@, ivs), !.dst = Addresses(@, ivs)]>>
         ELSE <<x>>])

Run(block) == Execution(block, <<>>)

\* The operations of one connection and kind between two barriers.
Phase(run, n) ==
  LET barriers(i) == Cardinality({j \in 1 .. i : run[j].op = "barrier"})
      own == SelectSeq([i \in DOMAIN run |-> i], LAMBDA i : barriers(i) = n /\ run[i].op # "barrier")
  IN  [i \in DOMAIN own |-> run[own[i]]]

Streams(run) ==
  LET of(n, conn, kind) == SelectSeq(Phase(run, n), LAMBDA x : IsDma(x) /\ x.conn = conn /\ x.kind = kind)
      src(xs) == FlattenSeq([i \in DOMAIN xs |-> xs[i].src])
      dst(xs) == FlattenSeq([i \in DOMAIN xs |-> xs[i].dst])
  IN  [n \in 0 .. Len(SelectSeq(run, LAMBDA x : x.op = "barrier")),
       conn \in DOMAIN SourceConfig, kind \in {"npu", "circular"} |->
         <<src(of(n, conn, kind)), dst(of(n, conn, kind))>>]

\* How much of a connection's stream is known to be complete at the end: all up
\* to the last operation that is waited for.
KnownComplete(run, conn) ==
  LET waited == {i \in DOMAIN run : /\ IsDma(run[i]) /\ run[i].conn = conn /\ run[i].type # "none"
                                    /\ \E j \in i + 1 .. Len(run) : run[j].op = "wait" /\ run[i].id \in run[j].ids}
      upTo == IF waited = {} THEN <<>>
              ELSE SelectSeq(SubSeq(run, 1, Max(waited)), LAMBDA x : IsDma(x) /\ x.conn = conn /\ ~Circular(x))
  IN  <<SumSeq([i \in DOMAIN upTo |-> Len(upTo[i].src)]), SumSeq([i \in DOMAIN upTo |-> Len(upTo[i].dst)])>>

---------------------------------------------------------------------------
(* Properties                                                              *)

\* Every connection reads and writes the same addresses in the same order as in
\* the program the pass was given, and no operation crosses a barrier, after
\* every rewriting step and in whatever order the driver applies them
\* (SubsumeLoopIntoDMA, CombineStridedOps and the canonicalisations).
AddressesKept == Streams(Run(program)) = Streams(Run(given))

\* What the control code knew to be complete at its end it still knows: erasing
\* the waits of the first of two combined operations and moving the others
\* loses no synchronisation.
SyncKept ==
  stage = "done" => \A c \in DOMAIN SourceConfig :
                      KnownComplete(Run(program), c) = KnownComplete(Run(given), c)

\* Every wait of the result finds a transfer to wait for: a DMA that left its
\* loop is waited for once, not once per iteration, and only after it started.
WaitsMatch ==
  stage = "done" =>
    LET run == Run(program)
        started(i, id) == Cardinality({j \in 1 .. i : IsDma(run[j]) /\ run[j].type # "none" /\ run[j].id = id})
        waited(i, id) == Cardinality({j \in 1 .. i : run[j].op = "wait" /\ id \in run[j].ids})
    IN  \A i \in DOMAIN run : run[i].op = "wait" => \A id \in run[i].ids : waited(i, id) <= started(i, id)

\* The rewriting comes to an end: no two patterns undo each other's work.
Terminates == <>(stage # "rewrite")
=============================================================================
