---- MODULE MCAsyncQueue ----
(***************************************************************************)
(* Instances of AsyncQueue for TLC.                                        *)
(***************************************************************************)
EXTENDS AsyncQueue, TLC

CONSTANTS c1, c2, o1, o2, o3, s1, s2, w1, w2

\* Two waits of one op, on semaphores the clients drive; it signals one
\* of them on, which a client may have done before.
JoinWaitOp == w1 :> o1 @@ w2 :> o1
JoinWaitSem == w1 :> s1 @@ w2 :> s2
JoinWaitVal == w1 :> 1 @@ w2 :> 1
JoinSignalList == o1 :> (s1 :> 2)

\* o1 and o2 wait for nothing; o3 waits for a semaphore that o1 or a client
\* signals.
OrderWaitOp == w1 :> o3
OrderWaitSem == w1 :> s1
OrderWaitVal == w1 :> 1
OrderSignalList == o1 :> (s1 :> 1) @@ o2 :> <<>> @@ o3 :> <<>>

\* One op with one wait.
OneWaitOp == w1 :> o1
OneWaitSem == w1 :> s1
OneWaitVal == w1 :> 1
OneSignalList == o1 :> (s2 :> 1)

ClientSymmetry == Permutations(Clients)
====
