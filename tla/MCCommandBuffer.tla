--------------------------- MODULE MCCommandBuffer ---------------------------
(***************************************************************************)
(* Instances of CommandBuffer for TLC.                                     *)
(***************************************************************************)
EXTENDS CommandBuffer, TLC

CONSTANTS b1, b2, b3

\* Addresses of contexts are interchangeable.
ContextSymmetry == Permutations(Contexts)

\* One executable with a plain kernel and two with control packets that share a
\* PDI; "q" also has an entry point without PDI and one without patch table.
ThreeExecutables ==
  [p |-> <<[pdi |-> "plain", name |-> "k0", reconfigurations |-> 0, patched |-> TRUE]>>,
   q |-> <<[pdi |-> "boot", name |-> "k1", reconfigurations |-> 1, patched |-> TRUE],
           [pdi |-> NoPdi, name |-> "k2", reconfigurations |-> 2, patched |-> TRUE],
           [pdi |-> "boot", name |-> "k3", reconfigurations |-> 1, patched |-> FALSE]>>,
   r |-> <<[pdi |-> "boot", name |-> "k1", reconfigurations |-> 1, patched |-> TRUE],
           [pdi |-> "boot", name |-> "k4", reconfigurations |-> 1, patched |-> TRUE]>>]

Dispatch(x, i, f, t) == [do |-> "dispatch", exe |-> x, entry |-> i, from |-> f, to |-> t]
CopyTo(f, t) == [do |-> "copy", from |-> f, to |-> t]
WriteTo(t, v) == [do |-> "write", to |-> t, value |-> v]
BarrierOf(h) == [do |-> "barrier", host |-> h]
Execute(l) == [kind |-> "execute", commands |-> l]
Dealloca(x) == [kind |-> "dealloca", buffer |-> x]
QCopy(f, t) == [kind |-> "copy", from |-> f, to |-> t]

Dispatches == {Dispatch("p", 1, b1, b2), Dispatch("q", 1, b1, b2), Dispatch("q", 2, b2, b3),
               Dispatch("r", 1, b2, b1), Dispatch("r", 2, b3, b3)}
Transfers == {CopyTo(b2, b3), WriteTo(b1, <<"v">>)}

ListsOf(cs, n) == UNION {[1 .. m -> cs] : m \in 0 .. n}

\* Every list of up to three commands, then one that looks at what is left.
AllLists == {<<Execute(l), Execute(<<Dispatch("q", 2, b2, b1), Dispatch("p", 1, b1, b3)>>)>> :
               l \in ListsOf(Dispatches \cup Transfers, 3)}

\* Two commands with an execution barrier between them.
BarrieredLists == {<<Execute(<<x, BarrierOf(FALSE), y>>)>> :
                     x \in Dispatches \cup Transfers, y \in Dispatches \cup Transfers}

\* Lists with something the driver refuses, after an operation that prepares
\* or spoils something for them.
Openings == {Execute(<<Dispatch("q", 1, b1, b2)>>), Dealloca(b3), QCopy(b1, b3),
             [kind |-> "barrier"]}
OddCommands == {Dispatch("q", 2, b2, b3), Dispatch("q", 3, b1, b2), Dispatch("p", 2, b1, b2),
                Dispatch("r", 2, b1, b2), BarrierOf(TRUE), BarrierOf(FALSE), CopyTo(b1, b2)}
OddLists == {<<f, Execute(l)>> : f \in Openings, l \in ListsOf(OddCommands, 2)}
            \cup {<<Dealloca(b1), QCopy(b1, b3)>>}

\* Both kinds of lists.
ManyLists == AllLists \cup OddLists
=============================================================================
