---------------------------- MODULE MCObjectFifos ----------------------------
(***************************************************************************)
(* Designs for ObjectFifos: shim -> memory tile -> core -> memory tile ->  *)
(* shim, with the depths, repetitions, broadcasts and core programs the    *)
(* matrix-multiplication and element-wise pipelines of the compiler use.   *)
(***************************************************************************)
EXTENDS ObjectFifos

MCDimConfig ==
  <<[intra |-> 4, inter |-> 0, wrap |-> 64, iterWrap |-> 4, step |-> 64, iterStep |-> 64],
    [intra |-> 3, inter |-> 0, wrap |-> 64, iterWrap |-> 4, step |-> 64, iterStep |-> 64]>>

\* A memory tile that can hold two fifos and a core tile that can hold three.
MCLocks == <<4, 6>>

D(size, stride) == Dim(Zero, size, stride)

Conn(source, targets, srcDims, dstDims) ==
  [source |-> source, targets |-> targets, srcDims |-> srcDims, dstDims |-> dstDims]

Whole == <<>>                                \* an object as it lies in memory
Linear == <<D(8, 1)>>                        \* the same, spelled out
Resend == <<D(2, 0), D(8, 1)>>               \* the object twice
Blocks == <<D(2, 4), D(2, 0), D(4, 1)>>      \* each half of the object twice

\* Core programs: element-wise, the accumulation of a matrix product, and the
\* same with its first step peeled off.
ElementWise(x, y) == <<Access(x, "Read"), Access(y, "Write")>>
Reduce(k) == <<Access("y", "Any"), For(k, <<Access("x", "Read")>>), Access("y", "Write")>>
Peeled == <<Access("x", "Read"), Access("y", "None"), For(2, <<Access("x", "Read"), Access("y", "None")>>),
            Access("y", "Write")>>

\* One core with one input and one output, which reads n objects for each.
OneCore(l2, l1, out, filled, taken, program, n, supply, outputs) ==
  [depth |-> [m |-> l2, x |-> l1, y |-> out, z |-> 1],
   tile |-> [m |-> "mem1", x |-> "core1", y |-> "core1", z |-> "mem1"],
   space |-> [m |-> 1, x |-> 2, y |-> 2, z |-> 1],
   conns |-> [in |-> Conn(Shim, {"m"}, Whole, filled), mx |-> Conn("m", {"x"}, taken, Whole),
              yz |-> Conn("y", {"z"}, Whole, Whole), out |-> Conn("z", {Shim}, Whole, Whole)],
   cores |-> [k1 |-> program], output |-> [k1 |-> "y"], reads |-> [k1 |-> [i \in 1 .. n |-> "x"]],
   supply |-> supply, outputs |-> [out |-> outputs]]

Single ==
  {OneCore(d[1], d[2], d[3], Linear, Whole, ElementWise("x", "y"), 1, 3, 3) :
     d \in {<<1, 1, 1>>, <<1, 2, 1>>, <<2, 1, 2>>, <<2, 2, 2>>}}
  \cup {OneCore(d[1], d[2], 1, Linear, Blocks, ElementWise("x", "y"), 1, 2, 8) :
           d \in {<<1, 2>>, <<2, 1>>}}
  \cup {OneCore(2, l1, l1, Linear, Resend, Reduce(2), 2, 3, 3) : l1 \in {1, 2}}
  \cup {OneCore(1, 2, 2, Whole, Whole, p, 3, 7, 2) : p \in {Reduce(3), Peeled}}
  \cup {OneCore(1, 2, 2, Whole, Whole, <<For(3, ElementWise("x", "y"))>>, 1, 5, 5)}

\* Two cores with a common input; their outputs leave on their own, one of them
\* straight from its core tile, or are joined in one fifo.
TwoCores(depth, outputs, tile, supply) ==
  [depth |-> [m |-> depth, x1 |-> depth, x2 |-> depth, y1 |-> 1, y2 |-> 1]
              @@ [f \in outputs.fifos |-> depth],
   tile |-> [m |-> "mem1", x1 |-> "core1", x2 |-> "core2", y1 |-> "core1", y2 |-> "core2"]
              @@ [f \in outputs.fifos |-> tile],
   space |-> [m |-> 1, x1 |-> 2, x2 |-> 2, y1 |-> 2, y2 |-> 2] @@ [f \in outputs.fifos |-> 1],
   conns |-> [in |-> Conn(Shim, {"m"}, Whole, Linear), mx |-> Conn("m", {"x1", "x2"}, Whole, Whole)]
              @@ outputs.conns,
   cores |-> [k1 |-> ElementWise("x1", "y1"), k2 |-> ElementWise("x2", "y2")],
   output |-> [k1 |-> "y1", k2 |-> "y2"], reads |-> [k1 |-> <<"x1">>, k2 |-> <<"x2">>],
   supply |-> supply, outputs |-> [c \in outputs.ends |-> supply]]

Apart ==
  [fifos |-> {"z1", "z2"}, ends |-> {"out1", "out2"},
   conns |-> [yz1 |-> Conn("y1", {"z1"}, Whole, Whole), yz2 |-> Conn("y2", {"z2"}, Whole, Whole),
              out1 |-> Conn("z1", {Shim}, Whole, Whole), out2 |-> Conn("z2", {Shim}, Whole, Whole)]]
OneDirect ==
  [fifos |-> {"z1"}, ends |-> {"out1", "out2"},
   conns |-> [yz1 |-> Conn("y1", {"z1"}, Whole, Whole), out1 |-> Conn("z1", {Shim}, Whole, Whole),
              out2 |-> Conn("y2", {Shim}, Whole, Whole)]]
Join ==
  [fifos |-> {"z"}, ends |-> {"out"},
   conns |-> [yz1 |-> Conn("y1", {"z"}, Whole, Whole), yz2 |-> Conn("y2", {"z"}, Whole, Whole),
              out |-> Conn("z", {Shim}, Whole, Whole)]]

\* The two producers of a joined fifo share one pair of locks, which keeps them
\* in step for one object only.
Several == {TwoCores(1, OneDirect, "mem2", 2), TwoCores(2, Join, "mem2", 1)}

\* Two inputs for one output, one of them without a fifo in the memory tile.
TwoInputs ==
  [depth |-> [m |-> 1, x |-> 2, v |-> 1, y |-> 2],
   tile |-> [m |-> "mem1", x |-> "core1", v |-> "core1", y |-> "core1"],
   space |-> [m |-> 1, x |-> 2, v |-> 2, y |-> 2],
   conns |-> [inM |-> Conn(Shim, {"m"}, Whole, Linear), inV |-> Conn(Shim, {"v"}, Whole, Linear),
              mx |-> Conn("m", {"x"}, Linear, Whole), out |-> Conn("y", {Shim}, Whole, Whole)],
   cores |-> [k1 |-> <<Access("y", "Any"), For(2, <<Access("x", "Read"), Access("v", "Read")>>),
                       Access("y", "Write")>>],
   output |-> [k1 |-> "y"], reads |-> [k1 |-> <<"x", "v", "x", "v">>],
   supply |-> 4, outputs |-> [out |-> 2]]

\* Designs the passes refuse: a repetition that cannot be folded, several
\* producers and several consumers, more locks than the tile has.
Refused ==
  {OneCore(1, 1, 1, Whole, Blocks, ElementWise("x", "y"), 1, 1, 4),
   TwoCores(1, [Join EXCEPT !.conns = @ @@ [out2 |-> Conn("z", {Shim}, Whole, Whole)]], "mem2", 1),
   TwoCores(1, Apart, "mem1", 1)}

\* A loop of five trips around the accesses of fifos with three buffers: two
\* trips are left over when it is unrolled.
OddLoop == {OneCore(1, 3, 3, Whole, Whole, <<For(5, ElementWise("x", "y"))>>, 1, 6, 6)}

MCDesigns == Single \cup Several \cup {TwoInputs} \cup Refused
=============================================================================
