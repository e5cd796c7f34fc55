----------------------------- MODULE ObjectFifos -----------------------------
(***************************************************************************)
(* The synchronisation of a compiled design on the AIE array: what         *)
(* AMDAIEObjFifoBufferization and AMDAIELowerToAIE refuse, which blocks of *)
(* an object the descriptors of a channel move, and the code of the cores  *)
(* (CoreLocks).  Compile runs the passes; then the engines of FifoEngines  *)
(* run.                                                                    *)
(***************************************************************************)
EXTENDS FifoEngines, CoreLocks, DmaUtils

CONSTANTS
  LocksPerTile,  \* deviceModel.getNumLocks of a tile of each memory space
  DimConfig      \* DmaDimConfig of each memory space

---------------------------------------------------------------------------
(* AMDAIEObjFifoBufferization                                              *)

\* Several producers and several consumers are refused, and so is a tile whose
\* fifos need more locks than it has.
Bufferizable ==
  /\ \A f \in Fifos : Cardinality(CopyLikeProducers(f)) <= 1 \/ Cardinality(CopyLikeConsumers(f)) <= 1
  /\ \A f \in Fifos : 2 * Cardinality({g \in Fifos : design.tile[g] = design.tile[f]}) <= LocksPerTile[design.space[f]]

---------------------------------------------------------------------------
(* AMDAIELowerToAIE                                                        *)

\* The patterns that touch a fifo.
PatternsOf(f) == {design.conns[c].dstDims : c \in CopyLikeProducers(f)}
                 \cup {design.conns[c].srcDims : c \in CopyLikeConsumers(f)}

\* The common repetition count of a fifo is folded away from each of them.
FoldedDims(f, dims) ==
  UNION {foldDimsAndReturnAsStatic(DimConfig[design.space[f]], dims, count) :
           count \in getRepetitionCount(PatternsOf(f))}

Foldable == \A f \in Fifos : \A dims \in PatternsOf(f) : FoldedDims(f, dims) # {}

Folded(f, dims) == CHOOSE d \in FoldedDims(f, dims) : TRUE

\* The dimensions up to the last one with stride zero become descriptors: the
\* offset of each of them in the object.
OuterOffsets(dims) ==
  LET lastZeroStride == Max({0} \cup {i \in DOMAIN dims : dims[i].stride = 0})
  IN  IF lastZeroStride = 0 THEN <<0>> ELSE Addresses(SubSeq(dims, 1, lastZeroStride), <<>>)

\* What the descriptors of a channel move of each buffer, and the core code.
BlocksMoved ==
  [ch \in Channels |->
     OuterOffsets(Folded(ch[2], IF ch \in SourceChannels THEN design.conns[ch[1]].srcDims
                                                         ELSE design.conns[ch[1]].dstDims))]
CoreCode == [k \in Cores |-> LowerCore(design.cores[k], design.depth)]

---------------------------------------------------------------------------
(* Compiling and running                                                   *)

Compile ==
  /\ stage = "compile"
  /\ Bufferizable /\ Foldable
  /\ \E blocks \in {BlocksMoved}, code \in {CoreCode} : Load(blocks, code)

CompileFails ==
  /\ stage = "compile"
  /\ ~(Bufferizable /\ Foldable)
  /\ Refuse

Next == Compile \/ CompileFails \/ Run

Spec == Init /\ [][Next]_vars

\* Some engine of the array moves as long as one can.
FairSpec == Spec /\ WF_vars(Run)

---------------------------------------------------------------------------
(* What the design should compute, without buffers and locks               *)

\* The blocks of one object of its source that connection c sends.
BlocksSent(c) == OuterOffsets(Folded(design.conns[c].source, design.conns[c].srcDims))

\* What core k reads for one output.
ReadsOf(k, g) == Len(SelectSeq(design.reads[k], LAMBDA x : x = g))
CoreOf(f) == CHOOSE k \in Cores : design.output[k] = f

\* The n-th object on connection c and the n-th object put into fifo f.
RECURSIVE ObjectOn(_, _), ObjectIn(_, _)
ObjectOn(c, n) ==
  IF design.conns[c].source = Shim THEN <<<<n, 0>>>>
  ELSE LET blocks == BlocksSent(c)
           per == Len(blocks)
       IN  BlockOf(ObjectIn(design.conns[c].source, ((n - 1) \div per) + 1), blocks[((n - 1) % per) + 1])
ObjectIn(f, n) ==
  IF CopyLikeProducers(f) # {}
    THEN LET parts == SetToSeq(Parts(f)) IN FlattenSeq([i \in DOMAIN parts |-> ObjectOn(parts[i], n)])
    ELSE LET reads == design.reads[CoreOf(f)]
             nth(i) == (n - 1) * ReadsOf(CoreOf(f), reads[i])
                       + Cardinality({j \in 1 .. i : reads[j] = reads[i]})
         IN  FlattenSeq([i \in DOMAIN reads |-> ObjectIn(reads[i], nth(i))])

---------------------------------------------------------------------------
(* Properties                                                              *)

\* The passes give every channel blocks to move and keep the text of the cores
\* in step with the rings: unrolling, the loop over the depths and the
\* counting of acquires fix each buffer where the ring has it.  This is what
\* ArraySpec expects of a compiler.
CompilesInStep ==
  [][Compile => /\ \E blocks \in {BlocksMoved}, code \in {CoreCode} : IsImage(blocks, code)
                /\ CoresInStep']_vars

\* Every object that reaches the shim is the one the design computes, in
\* order: the locks, the rings of descriptors and the buffers the compiler
\* fixed in the text of the cores stay in step, however fast each one runs.
DataInOrder ==
  stage = "run" =>
    \A c \in ReceivedConnections : \A n \in DOMAIN received[c] : received[c][n] = ObjectOn(c, n)

\* Every output the supply is enough for reaches the shim: no acquire waits for
\* a release that never comes.
AllDelivered ==
  (stage = "run") ~> (stage = "run" /\ \A c \in ReceivedConnections : Len(received[c]) = design.outputs[c])
=============================================================================
