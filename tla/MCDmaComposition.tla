-------------------------- MODULE MCDmaComposition --------------------------
(***************************************************************************)
(* Control codes for DmaComposition, after the tests of the composition    *)
(* passes: matrix-multiplication loops, loops with bias, step and outer    *)
(* variables, sequences to be combined, circular DMAs and barriers.        *)
(***************************************************************************)
EXTENDS DmaComposition

\* A shim DMA with two addressing dimensions and the iteration, a memory tile
\* DMA with three addressing dimensions.
Shim == [intra |-> 2, inter |-> 1, wrap |-> 6, iterWrap |-> 4, step |-> 31, iterStep |-> 31]
MemTile == [intra |-> 3, inter |-> 0, wrap |-> 6, iterWrap |-> 4, step |-> 31, iterStep |-> 31]

\* Connections "a" and "b" go from the shim to the memory tile, "c" comes back.
MCSource == [a |-> Shim, b |-> Shim, c |-> MemTile]
MCTarget == [a |-> MemTile, b |-> MemTile, c |-> Shim]

D(offset, size, stride) == Dim(Constant(offset), size, stride)
Iv(v, base, scale, size, stride) == Dim(Affine(base, scale, v), size, stride)

In(conn, src) == Dma("npu", conn, "L3", src, <<>>, 0, "none")
Out(dst, id) == Dma("npu", "c", "L3", <<>>, dst, id, "target")
Ring(conn, dst) == Dma("circular", conn, "L2", <<>>, dst, 0, "none")

\* for i { for j { a[i]; b[j]; c[i, j]; wait } }
MatMul == {
  <<For(1, 0, n, 1, <<For(2, 0, m, 1,
      <<In("a", <<D(0, 1, 8), Iv(1, 0, 2, 2, 1)>>),
        In("b", <<Iv(2, 0, 1, 1, 4), D(0, 4, 1)>>),
        Out(<<Iv(1, 0, 1, 2, 4), Iv(2, 0, 2, 2, 1)>>, 1),
        Wait({1})>>)>>)>> : n \in {1, 2}, m \in {2, 3}}

\* One loop with a bias, a step and a pattern that leaves more or less room.
OneLoop == {
  <<Ring("a", <<D(0, 2, 1)>>),
    For(1, lb, 5, st, <<In("a", pattern), Out(<<Iv(1, 1, 2, 2, 1)>>, 1), Wait({1})>>)>> :
      lb \in {0, 1}, st \in {1, 2},
      pattern \in {<<Iv(1, 0, 3, 3, 1)>>, <<D(1, 2, 4), Iv(1, 0, 1, 2, 1)>>, <<D(2, 2, 0), D(0, 4, 1)>>,
                   <<D(0, 2, 16), D(0, 2, 4), D(1, 1, 1)>>}}

\* Transfers in a row: contiguous, apart, with and without a wait, with a
\* barrier, another connection or a loop in between.
Row == {
  <<Out(<<D(x, 2, 1)>>, 1)>> \o between \o <<Out(<<D(y, 2, 1)>>, 2), Wait({2}), Out(<<D(8, 2, 1)>>, 3), Wait({3})>> :
      x \in {0, 4}, y \in {2, 4, 5},
      between \in {<<>>, <<Wait({1})>>, <<Wait({1}), Barrier>>, <<In("a", <<D(0, 4, 1)>>), Wait({1})>>,
                   <<For(1, 0, 2, 1, <<In("a", <<Iv(1, 0, 4, 4, 1)>>)>>), Wait({1})>>}}

\* Both tokens in one wait, tokens of one operation only, different ends.
Odd == {
  <<Out(<<D(0, 2, 1)>>, 1), Out(<<D(2, 2, 1)>>, 2), Wait({1, 2})>>,
  <<In("a", <<D(0, 3, 1)>>), [In("a", <<D(3, 3, 1)>>) EXCEPT !.id = 1, !.type = "source"], Wait({1})>>,
  <<[In("a", <<D(0, 3, 1)>>) EXCEPT !.id = 1, !.type = "source"], In("a", <<D(3, 3, 1)>>), Wait({1})>>,
  <<[In("a", <<D(0, 3, 1)>>) EXCEPT !.ends = "other"], In("a", <<D(3, 3, 1)>>)>>,
  <<In("b", <<D(0, 8, 1)>>), In("b", <<D(8, 4, 1)>>), In("b", <<D(0, 2, 0), D(0, 4, 1)>>)>>,
  <<In("b", <<D(3, 1, 2), D(0, 4, 1)>>), In("b", <<D(2, 1, 5), D(0, 4, 1)>>)>>,
  <<In("b", <<D(3, 1, 2), D(1, 1, 1), D(0, 2, 4)>>), In("b", <<D(0, 16, 1)>>)>>}

\* Circular DMAs before and after other users of their connection in a loop.
Rings == {
  <<For(1, 0, 2, 1, <<Ring("a", <<D(0, 3, 2), D(0, 2, 1)>>), In("a", <<Iv(1, 0, 2, 2, 1)>>)>>)>>,
  <<For(1, 0, 2, 1, <<In("a", <<Iv(1, 0, 2, 2, 1)>>), Ring("a", <<D(0, 3, 2), D(0, 2, 1)>>)>>)>>,
  <<For(1, 0, 2, 1, <<Ring("a", <<D(0, 2, 1)>>), Ring("a", <<D(2, 2, 1)>>)>>)>>,
  <<For(1, 0, 3, 1, <<For(2, 0, 2, 1, <<Ring("a", <<D(0, 2, 1)>>)>>), Ring("b", <<D(0, 2, 1)>>)>>)>>}

\* Two transfers of one connection with any two of these patterns, none of
\* which is a single element.
Patterns ==
  {<<D(o, n, st)>> : o \in {0, 2, 4}, n \in {2, 4}, st \in {1, 2}}
  \cup {<<D(o, n, 4), D(0, 2, 1)>> : o \in {0, 1}, n \in {1, 2}}
  \cup {<<D(1, 2, 8), D(0, 2, 4), D(2, 2, 1)>>, <<D(0, 3, 2), D(1, 2, 1)>>, <<D(0, 7, 2), D(0, 2, 1)>>}
Pairs == {<<In("a", p), In("a", q)>> : p, q \in Patterns}

MCPrograms == MatMul \cup OneLoop \cup Row \cup Odd \cup Rings \cup Pairs

\* Two offsets of one loop: @multiple_for_dependencies of
\* dma_loop_subsumption.mlir, scaled down.
TwoDependencies == {
  <<For(1, 0, 3, 1, <<Out(<<Iv(1, 0, 2, 1, 2), Iv(1, 0, 2, 2, 1)>>, 1), Wait({1})>>)>>}
=============================================================================
