---------------------------- MODULE FifoContract ----------------------------
(***************************************************************************)
(* What each logical object fifo promises to its two users: a queue of at  *)
(* most depth objects.  A producer that releases an object it acquired     *)
(* appends it, a consumer that releases one takes the oldest away, and     *)
(* nothing else changes what lies between them.                            *)
(***************************************************************************)
EXTENDS Integers, SequencesExt

CONSTANT Fifo

VARIABLES depth,  \* the number of buffers of each fifo
          queue   \* the objects of each that were produced and not yet consumed

vars == <<depth, queue>>

Init == queue = [f \in Fifo |-> <<>>]

Keep(f) == queue'[f] = queue[f]

\* A producer releases an object, whatever it is, when there is room for it.
Put(f) ==
  /\ Len(queue'[f]) = Len(queue[f]) + 1 /\ Len(queue'[f]) <= depth[f]
  /\ Front(queue'[f]) = queue[f]

\* A consumer releases the oldest object.
Get(f) ==
  /\ queue[f] # <<>>
  /\ queue'[f] = Tail(queue[f])

\* The fifos know nothing of each other.
Next ==
  /\ \A f \in Fifo : Keep(f) \/ Put(f) \/ Get(f)
  /\ UNCHANGED depth

Spec == Init /\ [][Next]_vars
=============================================================================
