----------------------------- MODULE NpuDmaPasses -----------------------------
(***************************************************************************)
(* The optimisations of the flat control code and its lowering, as         *)
(* operators on programs: AMDAIEInsertDmaBdChain, AMDAIEFoldDmaWaits and   *)
(* AMDAIEControlCodeLowering.  After unrolling every operation is in the   *)
(* scope of the control code, so the passes' scope checks hold.            *)
(*                                                                         *)
(* cx describes the connections: cx.tile[c] is the column of the shim      *)
(* tile, cx.dir[c] and cx.chan[c] its DMA channel there, cx.packet the     *)
(* connections with a packet flow, cx.repeat those whose access pattern    *)
(* gives a repeat count above one.                                         *)
(***************************************************************************)
EXTENDS AssignNpuDmaBdIds

CONSTANTS Conns,           \* connections
          MaxQueueSize     \* getDmaMaxQueueSize of a shim tile

ASSUME QueueAssumption == MaxQueueSize \in Nat \ {0}

IsDma(o) == o.op = "dma"
IsWait(o) == o.op = "wait"
DmasOf(code) == {o \in Range(code) : IsDma(o)}
DmaOf(code, x) == CHOOSE o \in DmasOf(code) : o.x = x
BdIdsOf(ops) == {o.bd : o \in Range(ops)}

-----------------------------------------------------------------------------
(* AMDAIEInsertDmaBdChain.                                                 *)

\* Mutant of checkForChainsWithDuplicateBdId: no id is found.
NoDuplicates(cx, o, chains) == {}

\* The chains to break because the id is in one of them on the same tile.
checkForChainsWithDuplicateBdId(cx, o, chains) ==
  LET dup == {c \in Conns : /\ cx.tile[c] = cx.tile[o.conn]
                            /\ o.bd \in BdIdsOf(chains[c])}
  IN  dup \cup (IF dup \ {o.conn} # {} THEN {o.conn} ELSE {})

\* Mutant of chainsBrokenByPacketFlow: only other packet flows are closed.
OtherPacketFlows(cx, o, chains) ==
  IF o.conn \in cx.packet
  THEN {c \in cx.packet \ {o.conn} : chains[c] # <<>>} ELSE {}

\* A packet flow DMA closes every other chain.
chainsBrokenByPacketFlow(cx, o, chains) ==
  IF o.conn \in cx.packet
  THEN {c \in Conns \ {o.conn} : chains[c] # <<>>} ELSE {}

\* One operation of the reverse walk.  s.chains holds the open chain of each
\* connection in program order; closed chains are collected.
chainStep(cx, o, s) ==
  LET broken == s.chainsToBreak
                  \cup chainsBrokenByPacketFlow(cx, o, s.chains)
                  \cup checkForChainsWithDuplicateBdId(cx, o, s.chains)
      open   == [c \in Conns |-> IF c \in broken THEN <<>> ELSE s.chains[c]]
  IN  CASE IsDma(o) /\ o.conn \notin cx.repeat ->
             [chains |-> [open EXCEPT ![o.conn] = <<o>> \o @],
              chainsToBreak |-> {},
              closed |-> s.closed \cup {s.chains[c] : c \in broken}]
        [] o.op = "barrier" ->
             [s EXCEPT !.chainsToBreak =
                          @ \cup {c \in Conns : s.chains[c] # <<>>}]
        [] OTHER -> s

dmaChains(cx, code) ==
  LET s == FoldRight(LAMBDA o, r : chainStep(cx, o, r), code,
                     [chains |-> [c \in Conns |-> <<>>],
                      chainsToBreak |-> {}, closed |-> {}])
  IN  {c \in s.closed \cup Range(s.chains) : Len(c) >= 2}

\* Mutant of updateChainOperands: the first of a chain keeps its token.
FirstKeepsToken(o, chains) ==
  IF \E c \in chains : o \in Range(c)
  THEN LET c == CHOOSE c \in chains : o \in Range(c)
           i == CHOOSE i \in DOMAIN c : c[i] = o
       IN  [o EXCEPT !.start_bd = c[1].bd,
                     !.token = i = 1,
                     !.next_bd = IF i = Len(c) THEN NoBdId ELSE c[i + 1].bd]
  ELSE o

\* All but the last of a chain lose their token and the waits on it, and name
\* the next descriptor; all of them name the first.
updateChainOperands(o, chains) ==
  IF \E c \in chains : o \in Range(c)
  THEN LET c == CHOOSE c \in chains : o \in Range(c)
           i == CHOOSE i \in DOMAIN c : c[i] = o
       IN  [o EXCEPT !.start_bd = c[1].bd,
                     !.token = i = Len(c),
                     !.next_bd = IF i = Len(c) THEN NoBdId ELSE c[i + 1].bd]
  ELSE o

insertDmaBdChain(cx, code) ==
  LET chains   == dmaChains(cx, code)
      interior == UNION {{o.x : o \in Range(Front(c))} : c \in chains}
      kept     == SelectSeq(code, LAMBDA o :
                    IsWait(o) => Range(o.of) \cap interior = {})
  IN  [i \in DOMAIN kept |->
         IF IsDma(kept[i]) THEN updateChainOperands(kept[i], chains)
                           ELSE kept[i]]

-----------------------------------------------------------------------------
(* AMDAIEFoldDmaWaits.                                                     *)

isDuplicateBdId(cx, o, bdIds) ==
  \E c \in Conns : cx.tile[c] = cx.tile[o.conn] /\ o.bd \in bdIds[c]

\* Mutant of clearBdIds: a barrier is not looked at.
KeepBdIds(bdIds) == bdIds

\* A barrier empties every queue and every batch.
clearBdIds(bdIds) == [c \in DOMAIN bdIds |-> {}]

\* Mutant of canFoldByQueue: the queue has no limit.
FoldWithoutLimit(cx, o, bdIds) ==
  bdIds[o.conn] # {} /\ ~isDuplicateBdId(cx, o, bdIds)

canFoldByQueue(cx, o, bdIds) ==
  /\ Cardinality(bdIds[o.conn]) < MaxQueueSize
  /\ bdIds[o.conn] # {}
  /\ ~isDuplicateBdId(cx, o, bdIds)

\* The wait at position i of the reverse walk joins the last queue or opens a
\* new one.
queueStep(cx, code, i, s) ==
  LET token(r, x) ==
        LET o == DmaOf(code, x)
            fold == canFoldByQueue(cx, o, r.bdIds)
        IN  [bdIds |-> [r.bdIds EXCEPT ![o.conn] =
                          (IF fold THEN @ ELSE {}) \cup {o.bd}],
             toQueue |-> r.toQueue /\ fold]
      r == FoldLeft(token, [bdIds |-> s.bdIds, toQueue |-> TRUE], code[i].of)
  IN  CASE IsWait(code[i]) ->
             [bdIds  |-> r.bdIds,
              queues |-> IF r.toQueue
                         THEN [s.queues EXCEPT ![Len(s.queues)] = Append(@, i)]
                         ELSE Append(s.queues, <<i>>)]
        [] code[i].op = "barrier" -> [s EXCEPT !.bdIds = clearBdIds(@)]
        [] OTHER -> s

\* Mutant of eraseQueueOperations: the first wait of a queue stays.
EraseTheLast(queues) == UNION {Range(Front(q)) : q \in Range(queues)}

\* Only the last wait of a queue stays (a queue lists its waits in reverse).
eraseQueueOperations(queues) == UNION {Range(Tail(q)) : q \in Range(queues)}

\* A DMA whose token is no longer used issues none.
foldDmaWaitsByQueue(cx, code) ==
  LET s == FoldRightDomain(LAMBDA i, r : queueStep(cx, code, i, r), code,
                           [bdIds |-> [c \in Conns |-> {}], queues |-> <<>>])
      erased == eraseQueueOperations(s.queues)
      left   == FlattenSeq([i \in DOMAIN code |->
                              IF i \in erased THEN <<>> ELSE <<code[i]>>])
      unused == (UNION {Range(code[i].of) : i \in erased})
                  \ (UNION {Range(o.of) : o \in {w \in Range(left) : IsWait(w)}})
  IN  [i \in DOMAIN left |->
         IF IsDma(left[i]) /\ left[i].x \in unused
         THEN [left[i] EXCEPT !.token = FALSE] ELSE left[i]]

canFoldByBatch(cx, o, connections, bdIds) ==
  /\ o.conn \notin connections
  /\ connections # {}
  /\ ~isDuplicateBdId(cx, o, bdIds)

\* The wait at position i of the reverse walk joins the current batch or
\* ends it and starts the next.
batchStep(cx, code, i, s) ==
  LET token(r, x) ==
        LET o == DmaOf(code, x)
            fold == canFoldByBatch(cx, o, r.connections, r.bdIds)
            kept == [c \in Conns |-> IF ~fold /\ c \in r.connections THEN {}
                                     ELSE r.bdIds[c]]
        IN  [connections |-> (IF fold THEN r.connections ELSE {})
                               \cup {o.conn},
             bdIds |-> [kept EXCEPT ![o.conn] = @ \cup {o.bd}],
             toBatch |-> r.toBatch /\ fold]
      r == FoldLeft(token, [connections |-> s.connections,
                            bdIds |-> s.bdIds, toBatch |-> TRUE], code[i].of)
  IN  CASE IsWait(code[i]) ->
             [connections |-> r.connections, bdIds |-> r.bdIds,
              waitOps |-> IF r.toBatch THEN <<i>> \o s.waitOps ELSE <<i>>,
              batches |-> IF r.toBatch THEN s.batches
                          ELSE s.batches \cup {s.waitOps}]
        [] code[i].op = "barrier" ->
             [s EXCEPT !.connections = {}, !.bdIds = clearBdIds(@)]
        [] OTHER -> s

\* The waits of a batch become one wait on all their tokens, in the place of
\* the last.
foldDmaWaitsByBatch(cx, code) ==
  LET s == FoldRightDomain(LAMBDA i, r : batchStep(cx, code, i, r), code,
                           [connections |-> {},
                            bdIds |-> [c \in Conns |-> {}],
                            waitOps |-> <<>>, batches |-> {}])
      batches == {b \in s.batches \cup {s.waitOps} : Len(b) >= 2}
      merged(b) == [op |-> "wait",
                    of |-> FlattenSeq([j \in DOMAIN b |-> code[b[j]].of])]
  IN  FlattenSeq([i \in DOMAIN code |->
        IF \E b \in batches : i \in Range(b)
        THEN LET b == CHOOSE b \in batches : i \in Range(b)
             IN  IF i = Last(b) THEN <<merged(b)>> ELSE <<>>
        ELSE <<code[i]>>])

-----------------------------------------------------------------------------
(* AMDAIEControlCodeLowering.                                              *)

\* The descriptor of a DMA, with the address it is patched with, and the push
\* of it.  What the descriptor addresses is the transfer x.
insertWriteBdOps(cx, o) ==
  [write |-> [op |-> "write_bd", tile |-> cx.tile[o.conn], bd |-> o.bd,
              x |-> o.x, conn |-> o.conn, next_bd |-> o.next_bd],
   push  |-> [op |-> "push", tile |-> cx.tile[o.conn],
              dir |-> cx.dir[o.conn], chan |-> cx.chan[o.conn],
              bd |-> o.bd, token |-> o.token]]

\* The last of a chain pushes the first descriptor of it, one that is in none
\* its own; the others are only written.
HalfDmaCpyNdToNpu(cx, o) ==
  LET ops == insertWriteBdOps(cx, o)
  IN  IF o.next_bd # NoBdId THEN <<ops.write>>
      ELSE IF o.start_bd = NoBdId THEN <<ops.write, ops.push>>
      ELSE <<ops.write, [ops.push EXCEPT !.bd = o.start_bd]>>

\* The order of the pushes in a wait: direction, channel, column.
pushBefore(a, b) ==
  \/ a.dir < b.dir
  \/ a.dir = b.dir /\ a.chan < b.chan
  \/ a.dir = b.dir /\ a.chan = b.chan /\ a.tile < b.tile

\* Neighbouring columns of one direction and channel share a sync.
DmaWaitToTctSync(cx, code, w) ==
  LET channel(x) == LET c == DmaOf(code, x).conn
                    IN  [tile |-> cx.tile[c], dir |-> cx.dir[c],
                         chan |-> cx.chan[c]]
      pushes == SortSeq([i \in DOMAIN w.of |-> channel(w.of[i])], pushBefore)
      batch(r, p) ==
        IF /\ r # <<>>
           /\ Last(r).tile + Last(r).columns = p.tile
           /\ Last(r).dir = p.dir
           /\ Last(r).chan = p.chan
        THEN [r EXCEPT ![Len(r)].columns = @ + 1]
        ELSE Append(r, [op |-> "sync", tile |-> p.tile, dir |-> p.dir,
                        chan |-> p.chan, columns |-> 1])
  IN  FoldLeft(batch, <<>>, pushes)

controlCodeLowering(cx, code) ==
  FlattenSeq([i \in DOMAIN code |->
    CASE IsDma(code[i]) -> HalfDmaCpyNdToNpu(cx, code[i])
      [] IsWait(code[i]) -> DmaWaitToTctSync(cx, code, code[i])
      [] OTHER -> <<>>])
=============================================================================
