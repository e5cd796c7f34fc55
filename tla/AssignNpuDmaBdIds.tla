-------------------------- MODULE AssignNpuDmaBdIds --------------------------
(***************************************************************************)
(* From the control code's loop nest to a flat list of shim DMA operations *)
(* with descriptor ids: the passes AMDAIEAssignNpuDmaBdIds,                *)
(* AMDAIEControlCodeLoopUnroll and AMDAIENpuDmaToHalfDmaCpyNd as operators *)
(* on programs.                                                            *)
(*                                                                         *)
(* A nested program is a sequence of                                       *)
(*   [op |-> "dma", id, conn]        an npu.dma_cpy_nd on a connection     *)
(*   [op |-> "wait", id, conn]       the npu.dma_wait on its token         *)
(*   [op |-> "barrier"]              an npu.barrier                        *)
(*   [op |-> "for", loop, body]      an scf.for from 0 to loop.ub by       *)
(*                                   loop.step over a nested program       *)
(* tileOf gives the shim tile of every connection.                         *)
(***************************************************************************)
EXTENDS Sequences, SequencesExt, BdIdGenerator

CONSTANTS Tiles,       \* columns of the shim tiles
          NumBdIds     \* descriptors of a shim tile

ASSUME BdIdsAssumption == NumBdIds \in Nat \ {0} /\ Tiles \subseteq Nat

ValidBdIds == 0 .. (NumBdIds - 1)

NoDma == 0
NoLoop == [ub |-> 0, step |-> 0]

-----------------------------------------------------------------------------
(* The batches of a scope, per tile.                                       *)

\* The estimate of a loop's trip count, one too many when step divides ub.
getNumberIterations(loop) == 1 + loop.ub \div loop.step

DmaBatch(loop) == [currentDmaOps |-> <<>>, immediateInnerBatches |-> <<>>,
                   forOpParent |-> loop]

isEmptyBatch(b) == b.currentDmaOps = <<>> /\ b.immediateInnerBatches = <<>>

addDmaToBatch(bs, id) ==
  [bs EXCEPT ![Len(bs)].currentDmaOps = Append(@, id)]

appendNewBatch(bs) == Append(bs, DmaBatch(Last(bs).forOpParent))

updateInnerBatchesOfLastBatch(bs, inner) ==
  [bs EXCEPT ![Len(bs)].immediateInnerBatches =
                 @ \o SelectSeq(inner, LAMBDA b : ~isEmptyBatch(b))]

\* One pass over the operations of a scope.  currDmaOp is the first shim DMA
\* since the last batch ended, on whatever tile; its wait ends the batch of
\* its own tile only.
RECURSIVE createTileDmaBatchGraph(_, _, _)
createTileDmaBatchGraph(items, loop, tileOf) ==
  LET start == [graph |-> [t \in Tiles |-> <<DmaBatch(loop)>>],
                currDmaOp |-> NoDma]
      process(s, it) ==
        CASE it.op = "dma" ->
               [graph |-> [s.graph EXCEPT ![tileOf[it.conn]] =
                                              addDmaToBatch(@, it.id)],
                currDmaOp |-> IF s.currDmaOp = NoDma THEN it.id
                                                     ELSE s.currDmaOp]
          [] it.op = "wait" /\ it.id = s.currDmaOp ->
               [graph |-> [s.graph EXCEPT ![tileOf[it.conn]] =
                                              appendNewBatch(@)],
                currDmaOp |-> NoDma]
          [] it.op = "for" ->
               LET inner == createTileDmaBatchGraph(it.body, it.loop, tileOf)
               IN  [s EXCEPT !.graph =
                      [t \in Tiles |->
                         updateInnerBatchesOfLastBatch(@[t], inner[t])]]
          [] OTHER -> s
  IN  FoldLeft(process, start, items).graph

-----------------------------------------------------------------------------
(* The assignment of ids to the batches of one tile.                       *)

\* What the nested batches are taken to need.  A nested batch under a loop
\* counts its own DMAs once and its nested ones once per iteration.
RECURSIVE getRequiredBdIdsForInnerBatches(_)
getRequiredBdIdsForInnerBatches(b) ==
  FoldLeft(LAMBDA n, i :
             n + Len(i.currentDmaOps)
               + (IF i.forOpParent = NoLoop THEN 0
                  ELSE getRequiredBdIdsForInnerBatches(i)
                         * getNumberIterations(i.forOpParent)),
           0, b.immediateInnerBatches)

requiredBdIds(b) ==
  Len(b.currentDmaOps) + getRequiredBdIdsForInnerBatches(b)

\* How many ids each DMA of the batch may cycle through.
batchSize(g, b) ==
  IF b.forOpParent = NoLoop THEN 1
  ELSE Max({1, getNumAvailableBdIds(g, ValidBdIds) \div requiredBdIds(b)})

\* The ids of one DMA: one id, or a run of consecutive ids it cycles through.
\* No id left is a compilation error.
assignDmaBdIds(s, id, size) ==
  LET one == IncrementalBdId(s.gen, ValidBdIds)
      ids == IF size > 1 THEN ConsecutiveBdIds(s.gen, ValidBdIds, size)
             ELSE IF one = NoBdId THEN {} ELSE {one}
  IN  [gen |-> assignBdIds(s.gen, ids),
       ids |-> s.ids @@ (id :> ids),
       ok  |-> s.ok /\ ids # {}]

assignRequiredBdIdsInCurrentBatch(s, b) ==
  LET size == batchSize(s.gen, b)
  IN  IF b.currentDmaOps = <<>> THEN s
      ELSE FoldLeft(LAMBDA r, id : assignDmaBdIds(r, id, size),
                    s, b.currentDmaOps)

releaseAssignedBdIdsInDmaOps(s, dmas) ==
  FoldLeft(LAMBDA r, id : [r EXCEPT !.gen = releaseBdIds(@, r.ids[id])],
           s, dmas)

\* The batch's own ids are held while its nested batches get theirs.
RECURSIVE processDmaBatch(_, _)
processDmaBatch(s, b) ==
  LET own   == assignRequiredBdIdsInCurrentBatch(s, b)
      inner == FoldLeft(processDmaBatch, own, b.immediateInnerBatches)
  IN  IF isEmptyBatch(b) THEN s
      ELSE releaseAssignedBdIdsInDmaOps(inner, b.currentDmaOps)

\* The ids of every DMA of the program, and whether all of them got some.
assignNpuDmaBdIds(items, tileOf) ==
  LET graph == createTileDmaBatchGraph(items, NoLoop, tileOf)
      tile(t) == FoldLeft(processDmaBatch,
                          [gen |-> NewGenerator, ids |-> <<>>, ok |-> TRUE],
                          graph[t])
  IN  [ids |-> FoldSet(LAMBDA t, f : f @@ tile(t).ids, <<>>, Tiles),
       ok  |-> \A t \in Tiles : tile(t).ok]

-----------------------------------------------------------------------------
(* The unrolled program, on the shim halves of the DMAs.                   *)

tripCount(loop) == (loop.ub + loop.step - 1) \div loop.step

\* The semi-affine expression iv % effSize + offset, or the constant id.
bdIdAt(ids, iv) ==
  IF Cardinality(ids) > 1 THEN (iv % Cardinality(ids)) + Min(ids) ELSE Min(ids)

\* A half DMA names its transfer x, the connection, whether its token is
\* used, and how its descriptor is linked.  A wait names the transfers whose
\* tokens it takes.
HalfDma(x, conn, bd) ==
  [op |-> "dma", x |-> x, conn |-> conn, bd |-> bd, token |-> TRUE,
   next_bd |-> NoBdId, start_bd |-> NoBdId]

\* A transfer is a DMA of the nested program and the iterations it is in.
RECURSIVE controlCodeLoopUnroll(_, _, _, _)
controlCodeLoopUnroll(items, ids, path, iv) ==
  FlattenSeq([i \in 1 .. Len(items) |->
    LET it == items[i]
    IN  CASE it.op = "dma" ->
               <<HalfDma(<<it.id>> \o path, it.conn, bdIdAt(ids[it.id], iv))>>
          [] it.op = "wait" -> <<[op |-> "wait", of |-> << <<it.id>> \o path >>]>>
          [] it.op = "barrier" -> <<[op |-> "barrier"]>>
          [] it.op = "for" ->
               FlattenSeq([k \in 1 .. tripCount(it.loop) |->
                 controlCodeLoopUnroll(it.body, ids, Append(path, k),
                                       (k - 1) * it.loop.step)])])
=============================================================================
