------------------------------ MODULE DmaUtils ------------------------------
(***************************************************************************)
(* The access patterns of DMA operations and the helpers that rewrite them *)
(* (Transforms/Utils/AMDAIEDmaUtils).                                      *)
(*                                                                         *)
(* A pattern is a sequence of dimensions, outermost first, each with an    *)
(* offset, a size and a stride.  Sizes and strides are constants; an       *)
(* offset is base + scale * iv, with iv the number of an enclosing loop, or*)
(* 0 for a constant.  An MLIR value is identified by what it computes      *)
(* (createCSEPass runs first).  The empty pattern is an implicit one: the  *)
(* whole object of the fifo.                                               *)
(*                                                                         *)
(* A helper that can fail returns the set of its results, empty when it    *)
(* fails; one that leaves its argument alone then returns the argument.    *)
(***************************************************************************)
EXTENDS Integers, SequencesExt, FiniteSetsExt

Unbounded == 2147483647   \* std::numeric_limits<int64_t>::max()

Constant(n) == [base |-> n, scale |-> 0, iv |-> 0]
Affine(base, scale, iv) == [base |-> base, scale |-> scale, iv |-> iv]
Dim(offset, size, stride) == [offset |-> offset, size |-> size, stride |-> stride]

IsConstant(offset) == offset.iv = 0
Zero == Constant(0)

SumSeq(s) == FoldLeft(LAMBDA acc, x : acc + x, 0, s)
ProductSeq(s) == FoldLeft(LAMBDA acc, x : acc * x, 1, s)
SizesOf(dims) == [i \in DOMAIN dims |-> dims[i].size]

---------------------------------------------------------------------------
(* DmaDimConfig: what the DMA of a tile can address.  A device gives for   *)
(* each memory space the numbers of intra and inter dimensions and the     *)
(* limits of their sizes and strides.                                      *)

getMaxSizes(config, circular, n) ==
  [i \in 1 .. n |->
     LET fromEnd == n - i
     IN  CASE circular \/ fromEnd < config.intra - 1 -> config.wrap
           [] ~circular /\ fromEnd = config.intra - 1 -> Unbounded
           [] ~circular /\ fromEnd \in config.intra .. config.intra + config.inter - 1 -> config.iterWrap
           [] OTHER -> 0]

getMaxStrides(config, circular, n) ==
  [i \in 1 .. n |->
     LET fromEnd == n - i
     IN  CASE fromEnd < config.intra -> config.step + 1
           [] circular /\ fromEnd >= config.intra -> Unbounded
           [] ~circular /\ fromEnd \in config.intra .. config.intra + config.inter - 1 -> config.iterStep + 1
           [] OTHER -> 0]

\* Unit dimensions and repetitions are not looked at.
isValidAccessPattern(config, circular, dims) ==
  LET used == SelectSeq(dims, LAMBDA d : d.size # 1 /\ d.stride # 0)
      maxSizes == getMaxSizes(config, circular, Len(used))
      maxStrides == getMaxStrides(config, circular, Len(used))
  IN  \A i \in DOMAIN used : used[i].size \in 0 .. maxSizes[i] /\ used[i].stride \in 0 .. maxStrides[i]

exceedsNbDims(config, circular, n) == ~circular /\ n > config.intra + config.inter

---------------------------------------------------------------------------
(* Canonicalisation                                                        *)

\* Adds an offset of stride one to the first dimension that can take it.
mergeOffset(offset, dims) ==
  LET takers == {i \in DOMAIN dims :
                   IsConstant(dims[i].offset) /\ dims[i].stride # 0 /\ offset % dims[i].stride = 0}
      merge(i) == [dims EXCEPT ![i].offset.base = @ + offset \div dims[i].stride]
  IN  IF offset = 0 THEN {dims}
      ELSE IF takers = {} THEN {} ELSE {merge(Min(takers))}

foldUnitDims(dims) ==
  LET foldable(d) == IsConstant(d.offset) /\ d.size = 1
      unit == SelectSeq(dims, foldable)
      kept == SelectSeq(dims, LAMBDA d : ~foldable(d))
      cumulative == SumSeq([i \in DOMAIN unit |-> unit[i].offset.base * unit[i].stride])
      merged == mergeOffset(cumulative, kept)
      insertionIndex == Len(SelectSeq(kept, LAMBDA d : d.size = 1))
  IN  IF unit = <<>> THEN dims
      ELSE IF merged # {} THEN CHOOSE m \in merged : TRUE
      ELSE IF Len(unit) = 1 THEN dims
      ELSE InsertAt(kept, insertionIndex + 1, Dim(Constant(1), 1, cumulative))

\* Folds a dimension into the one inside it when the two are one linear access;
\* maxSizes are compared from the innermost.
foldLinearDims(dims, maxSizes) ==
  LET fits(idxFromEnd, size) ==
        \/ maxSizes = <<>>
        \/ idxFromEnd < Len(maxSizes) /\ size <= maxSizes[Len(maxSizes) - idxFromEnd]
      step(d, acc) ==
        LET prev == acc[1]
            folds == /\ fits(Len(acc) - 1, d.size * prev.size)
                     /\ prev.stride * prev.size = d.stride
                     /\ d.offset = Zero \/ (IsConstant(d.offset) /\ IsConstant(prev.offset))
            moved == IF d.offset = Zero THEN 0 ELSE (d.offset.base * d.stride) \div prev.stride
        IN  IF folds
              THEN <<[prev EXCEPT !.size = @ * d.size, !.offset.base = @ + moved]>> \o Tail(acc)
              ELSE <<d>> \o acc
  IN  IF dims = <<>> THEN dims ELSE FoldRight(step, Front(dims), <<Last(dims)>>)

findFactorResultingInSmallerSize(size, maxSize) ==
  LET factors == {i \in 2 .. size \div 2 : size % i = 0 /\ size \div i <= maxSize}
  IN  IF maxSize \in {0, 1} \/ size <= maxSize THEN 1
      ELSE IF factors = {} THEN size ELSE Min(factors)

\* A size beyond its limit becomes a sequence of smaller ones.
RECURSIVE ExpandDim(_, _)
ExpandDim(d, maxSize) ==
  LET factor == findFactorResultingInSmallerSize(d.size, maxSize)
      inner == d.size \div factor
  IN  IF d.stride = 0 \/ factor \in {1, d.size} THEN <<d>>
      ELSE Append(ExpandDim(Dim(Zero, factor, d.stride * inner), maxSize), [d EXCEPT !.size = inner])

expandLargeDimIntoLinearDims(dims, maxSizes) ==
  FlattenSeq([i \in DOMAIN dims |-> ExpandDim(dims[i], maxSizes[Len(maxSizes) - Len(dims) + i])])

---------------------------------------------------------------------------
(* Combining two patterns                                                  *)

\* A unit dimension of x takes the stride of y when its offset allows it.
matchStridesOfUnitDims(x, y) ==
  [i \in DOMAIN x |->
     IF /\ x[i].stride # y[i].stride /\ x[i].size = 1 /\ IsConstant(x[i].offset)
        /\ (x[i].offset.base * x[i].stride) % y[i].stride = 0
       THEN Dim(Constant((x[i].offset.base * x[i].stride) \div y[i].stride), 1, y[i].stride)
       ELSE x[i]]

\* The global offset of x less that of y, when the loop variables cancel.
getGlobalOffsetDifference(x, y) ==
  LET constants(dims) == SumSeq([i \in DOMAIN dims |->
                            IF IsConstant(dims[i].offset) THEN dims[i].offset.base * dims[i].stride ELSE 0])
      of(dims, v) == SumSeq([i \in DOMAIN dims |-> IF dims[i].offset = v THEN dims[i].stride ELSE 0])
      values == {d.offset : d \in {e \in Range(x \o y) : ~IsConstant(e.offset)}}
  IN  IF \A v \in values : of(x, v) = of(y, v) THEN {constants(x) - constants(y)} ELSE {}

\* x gets a unit dimension at the first place from the back where y differs.
insertUnitDimension(x, y) ==
  LET same == {n \in 0 .. Len(x) : \A k \in 1 .. n : y[Len(y) + 1 - k].stride = x[Len(x) + 1 - k].stride}
      index == Len(x) - Max(same)
  IN  InsertAt(x, index + 1, Dim(Zero, 1, y[index + 1].stride))

mergeInFirst(a0, b0) ==
  LET a1 == IF Len(a0) + 1 = Len(b0) THEN insertUnitDimension(a0, b0) ELSE a0
      b1 == IF Len(b0) + 1 = Len(a0) THEN insertUnitDimension(b0, a0) ELSE b0
      a == matchStridesOfUnitDims(a1, b1)
      b == matchStridesOfUnitDims(b1, a)
      strides(dims) == [i \in DOMAIN dims |-> dims[i].stride]
      merge(diff) ==
        IF diff = a[1].size * a[1].stride THEN {[a EXCEPT ![1].size = @ + b[1].size]}
        ELSE IF a[1].size = b[1].size /\ diff >= 0
          THEN {InsertAt(a, IF a[1].size = 1 THEN 2 ELSE 1, Dim(Zero, 2, diff))}
        ELSE {}
  IN  IF a0 = <<>> /\ b0 = <<>> THEN {a0}
      ELSE IF Len(a1) # Len(b1) THEN {}
      ELSE IF strides(a) # strides(b) \/ Tail(SizesOf(a)) # Tail(SizesOf(b)) THEN {}
      ELSE UNION {merge(diff) : diff \in getGlobalOffsetDifference(b, a)}

combineAccessPatterns(a, b, config, circular) ==
  {dims \in {foldUnitDims(m) : m \in mergeInFirst(a, b)} : ~exceedsNbDims(config, circular, Len(dims))}

---------------------------------------------------------------------------
(* Repetitions                                                             *)

\* Takes a repetition count from the front of the pattern.
foldRepetitionCount(dims, count) ==
  LET step(acc, d) ==
        IF acc.left = 1 \/ acc.failed THEN [acc EXCEPT !.dims = Append(@, d)]
        ELSE IF d.stride # 0 THEN [acc EXCEPT !.failed = TRUE]
        ELSE IF d.size >= acc.left
          THEN [left |-> 1, failed |-> d.size % acc.left # 0,
                dims |-> Append(acc.dims, [d EXCEPT !.size = @ \div acc.left])]
          ELSE [left |-> acc.left \div d.size, failed |-> acc.left % d.size # 0,
                dims |-> Append(acc.dims, [d EXCEPT !.size = 1])]
      result == FoldLeft(step, [left |-> count, failed |-> FALSE, dims |-> <<>>], dims)
  IN  IF result.failed \/ result.left # 1 THEN {} ELSE {result.dims}

RepetitionCount(dims) ==
  IF dims = <<>> THEN 0
  ELSE ProductSeq([i \in DOMAIN dims |-> IF dims[i].stride = 0 THEN dims[i].size ELSE 1])

\* The count all users of a fifo have in common.
getRepetitionCount(patterns) ==
  LET counts == {RepetitionCount(p) : p \in patterns} \ {0}
  IN  IF counts = {} THEN {1} ELSE {m \in {Min(counts)} : \A c \in counts : c % m = 0}

foldDimsAndReturnAsStatic(config, dims, count) ==
  LET zeroed(d) == foldUnitDims([i \in DOMAIN d |-> [d[i] EXCEPT !.offset = Zero]])
      fold(d) == foldLinearDims(zeroed(d), getMaxSizes(config, FALSE, Len(zeroed(d))))
  IN  {fold(d) : d \in foldRepetitionCount(dims, count)}

---------------------------------------------------------------------------
(* What a pattern means                                                    *)

\* The addresses a pattern visits, in order; ivs is the value of each loop
\* variable.
Addresses(dims, ivs) ==
  LET value(o) == IF IsConstant(o) THEN o.base ELSE o.base + o.scale * ivs[o.iv]
      step(d, acc) == FlattenSeq([k \in 1 .. d.size |->
                        [j \in DOMAIN acc |-> acc[j] + (value(d.offset) + k - 1) * d.stride]])
  IN  IF dims = <<>> THEN <<>> ELSE FoldRight(step, dims, <<0>>)
=============================================================================
