-------------------------- MODULE MCNpuControlCode --------------------------
(***************************************************************************)
(* Small control codes for NpuControlCode: two inputs and two outputs of a *)
(* workgroup, in the loop nests the passes' tests are about.               *)
(***************************************************************************)
EXTENDS NpuControlCode

CONSTANTS in1, in2, out1, out2

Start(base, cs) ==
  [i \in DOMAIN cs |-> [op |-> "dma", id |-> base + i, conn |-> cs[i]]]
Await(base, cs) ==
  [i \in DOMAIN cs |-> [op |-> "wait", id |-> base + i, conn |-> cs[i]]]
For(n, step, body) ==
  <<[op |-> "for", loop |-> [ub |-> n * step, step |-> step], body |-> body]>>
Barrier == <<[op |-> "barrier"]>>

\* All the DMAs of a body and then their waits, or each with its own wait.
Overlapped(base, cs) == Start(base, cs) \o Await(base, cs)
Sequential(base, cs) ==
  FlattenSeq([i \in DOMAIN cs |->
    Overlapped(base + i, <<cs[i]>>)])

Cx(tiles, packet, rep) ==
  [tile |-> tiles, packet |-> packet, repeat |-> rep,
   dir |-> (in1 :> MM2S @@ in2 :> MM2S @@ out1 :> S2MM @@ out2 :> S2MM),
   chan |-> (in1 :> 0 @@ in2 :> 1 @@ out1 :> 0 @@ out2 :> 1)]

Control(bodies, tiles, packets, repeats) ==
  {[items |-> p, cx |-> Cx(t, k, r)] :
     p \in bodies, t \in tiles, k \in packets, r \in repeats}

OneTile == [Conns -> {0}]
AnyTiles == [Conns -> Tiles]
Bodies == {<<in1>>, <<in1, out1>>, <<in1, in2, out1>>,
           <<in1, out1, out2>>, <<in1, in2, out1, out2>>}

Loops(bodies, ns) ==
  {For(n, s, Overlapped(0, b)) : n \in ns, s \in {1, 2}, b \in bodies}
Nests == {For(2, 1, Start(10, <<in1>>) \o For(n, 1, Overlapped(0, b))
                      \o Await(10, <<in1>>)) : n \in {2, 3}, b \in Bodies}
Barriers(bodies) == {For(n, 1, Overlapped(0, b)) \o Barrier
               \o For(n, 1, Overlapped(10, c)) :
               n \in {2, 3}, b \in bodies, c \in {<<in1, out1>>, <<in2>>}}
Apart == {For(n, 1, Sequential(0, b)) :
            n \in {2, 5}, b \in {<<in1>>, <<in1, in2>>, <<in1, out1>>}}

\* Every tile that serves the body serves as many of its connections, so that
\* the descriptors of all tiles run out in the same trip.
EvenTiles(body) ==
  {t \in AnyTiles :
     \A c, d \in Range(body) :
       Cardinality({e \in Range(body) : t[e] = t[c]}) =
       Cardinality({e \in Range(body) : t[e] = t[d]})}

Evenly(packets) ==
  UNION {Control(Loops({b}, {2, 3, 5}) \cup Barriers({b}), EvenTiles(b), packets, {{}}) :
           b \in Bodies}

\* One shim tile with circuit and packet flows, loop nests and barriers; on
\* several tiles loops and barriers with one kind of flow, spread evenly, and
\* loops that wait for each DMA.  Left out are loops that overlap the DMAs of
\* unevenly used tiles, and mixed flows and nests on several tiles: there the
\* chains or queues of one tile are closed while those of another stay open,
\* and properties of NpuControlCode fail (UnevenCodes is the smallest case).
ControlCodes ==
  UNION {Control(Loops(Bodies, {2, 3, 5}), OneTile, {{}, {in1}, {in1, in2}}, {{}, Conns}),
         Control(Nests \cup Barriers(Bodies), OneTile, {{}, {in1}}, {{}}),
         Evenly({{}, Conns}),
         Control(Apart, AnyTiles, {{}}, {{}})}

\* Three trips of two inputs and an output, the second input on a tile of its own.
UnevenCodes ==
  Control({For(3, 1, Overlapped(0, <<in1, in2, out1>>))},
          {[c \in Conns |-> IF c = in2 THEN 1 ELSE 0]}, {{}}, {{}})

\* Three connections of one tile, each DMA followed by its wait.
SequentialCodes ==
  Control({For(3, 1, Sequential(0, <<in1, in2, out1>>))}, OneTile, {{}}, {{}})
=============================================================================
