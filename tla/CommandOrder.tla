---------------------------- MODULE CommandOrder ----------------------------
(***************************************************************************)
(* The proof that a list acts as it was recorded: however its dispatches   *)
(* are spread over groups, chunks and contexts, and although transfers run *)
(* at once and chained dispatches later, device memory ends up as if every *)
(* command took effect in its place.  OrderInv is inductive relative to    *)
(* the invariant of CommandBufferProofs.                                   *)
(*                                                                         *)
(* The reference, Memories, and what a dispatch does, Executions, are      *)
(* recursive functions.  LeastNat, the least-number principle, takes the   *)
(* place of induction.                                                     *)
(***************************************************************************)
EXTENDS CommandBufferProofs, WellFoundedInduction

\* A set of numbers has a least one.
LEMMA LeastNat ==
  ASSUME NEW S, S \subseteq Nat, S # {}
  PROVE  \E n \in S : \A m \in S : n <= m
<1> DEFINE R == {ss \in Nat \X Nat : ss[1] < ss[2]}
<1>1. IsWellFoundedOn(R, Nat)
  BY NatLessThanWellFounded DEF OpToRel
<1> HIDE DEF R
<1>2. PICK x \in S : \A y \in S : ~ (<<y, x>> \in R)
  BY <1>1, WFMin
<1>3. \A y \in S : ~ (y < x)
  BY <1>2 DEF R
<1> QED BY <1>3

\* The memories of a list follow from each other.
LEMMA MemoriesSteps ==
  ASSUME NEW commands, Len(commands) \in Nat, NEW m
  PROVE  /\ Memories(commands, m)[0] = m
         /\ \A i \in 1 .. Len(commands) :
              Memories(commands, m)[i] = Effect(commands[i], Memories(commands, m)[i - 1])
<1> DEFINE Good(g, k) == g = [i \in 0 .. k |-> IF i = 0 THEN m ELSE Effect(commands[i], g[i - 1])]
           Bad == {k \in Nat : ~ \E g : Good(g, k)}
<1>1. Bad = {}
  <2> SUFFICES ASSUME Bad # {} PROVE FALSE
    OBVIOUS
  <2>1. Bad \subseteq Nat
    OBVIOUS
  <2> HIDE DEF Bad
  <2>2. PICK k \in Bad : \A n \in Bad : k <= n
    BY <2>1, LeastNat
  <2>3. k \in Nat /\ ~ \E g : Good(g, k)
    BY <2>2 DEF Bad
  <2>4. k # 0
    <3> DEFINE g == [i \in 0 .. 0 |-> m]
    <3>1. Good(g, 0)
      OBVIOUS
    <3> QED BY <2>3, <3>1
  <2>5. k - 1 \in Nat /\ k - 1 \notin Bad
    BY <2>2, <2>3, <2>4
  <2>6. PICK h : Good(h, k - 1)
    BY <2>5 DEF Bad
  <2> DEFINE g == [i \in 0 .. k |-> IF i = k THEN Effect(commands[k], h[k - 1]) ELSE h[i]]
  <2>7. Good(g, k)
    <3>1. \A i \in 0 .. k - 1 : g[i] = h[i] /\ g[i] = IF i = 0 THEN m ELSE Effect(commands[i], h[i - 1])
      BY <2>3, <2>4, <2>6
    <3>2. \A i \in 0 .. k : g[i] = IF i = 0 THEN m ELSE Effect(commands[i], g[i - 1])
      <4> TAKE i \in 0 .. k
      <4>1. CASE i = k
        <5>1. g[k] = Effect(commands[k], h[k - 1]) /\ g[k - 1] = h[k - 1]
          BY <2>3, <2>4, <3>1
        <5> QED BY <4>1, <5>1, <2>4
      <4>2. CASE i # k
        <5>1. i \in 0 .. k - 1 /\ (i # 0 => i - 1 \in 0 .. k - 1)
          BY <2>3, <4>2
        <5> HIDE DEF g
        <5> QED BY <3>1, <5>1
      <4> QED BY <4>1, <4>2
    <3>3. g = [i \in 0 .. k |-> g[i]]
      OBVIOUS
    <3> HIDE DEF g
    <3> QED BY <3>2, <3>3
  <2> QED BY <2>3, <2>7
<1>2. PICK h : Good(h, Len(commands))
  BY <1>1
<1>3. Good(CHOOSE g : Good(g, Len(commands)), Len(commands))
  BY <1>2
<1>4. Memories(commands, m) = CHOOSE g : Good(g, Len(commands))
  BY DEF Memories
<1>5. Good(Memories(commands, m), Len(commands))
  BY <1>3, <1>4
<1> QED BY <1>5

\* The executions of a dispatch follow from each other.
LEMMA ExecutionsSteps ==
  ASSUME NEW c \in Runnable, NEW m
  PROVE  /\ Executions(c, m)[0] = m
         /\ \A j \in 1 .. RunsOf(Entry(c)) * KernelRuns :
              Executions(c, m)[j] = Executes(c, 1 + (j - 1) \div KernelRuns, Executions(c, m)[j - 1])
<1> DEFINE Last == RunsOf(Entry(c)) * KernelRuns
           Next1(j, x) == Executes(c, 1 + (j - 1) \div KernelRuns, x)
           Good(g, k) == g = [j \in 0 .. k |-> IF j = 0 THEN m ELSE Next1(j, g[j - 1])]
           Bad == {k \in Nat : ~ \E g : Good(g, k)}
<1>0. Last \in Nat
  BY RepeatsType, NatProduct, ConstantsAssumption
<1> HIDE DEF Last, Next1
<1>1. Bad = {}
  <2> SUFFICES ASSUME Bad # {} PROVE FALSE
    OBVIOUS
  <2>1. Bad \subseteq Nat
    OBVIOUS
  <2> HIDE DEF Bad
  <2>2. PICK k \in Bad : \A n \in Bad : k <= n
    BY <2>1, LeastNat
  <2>3. k \in Nat /\ ~ \E g : Good(g, k)
    BY <2>2 DEF Bad
  <2>4. k # 0
    <3> DEFINE g == [i \in 0 .. 0 |-> m]
    <3>1. Good(g, 0)
      OBVIOUS
    <3> QED BY <2>3, <3>1
  <2>5. k - 1 \in Nat /\ k - 1 \notin Bad
    BY <2>2, <2>3, <2>4
  <2>6. PICK h : Good(h, k - 1)
    BY <2>5 DEF Bad
  <2> DEFINE g == [i \in 0 .. k |-> IF i = k THEN Next1(k, h[k - 1]) ELSE h[i]]
  <2>7. Good(g, k)
    <3>1. \A i \in 0 .. k - 1 : g[i] = h[i] /\ g[i] = IF i = 0 THEN m ELSE Next1(i, h[i - 1])
      BY <2>3, <2>4, <2>6
    <3>2. \A i \in 0 .. k : g[i] = IF i = 0 THEN m ELSE Next1(i, g[i - 1])
      <4> TAKE i \in 0 .. k
      <4>1. CASE i = k
        <5>1. g[k] = Next1(k, h[k - 1]) /\ g[k - 1] = h[k - 1]
          BY <2>3, <2>4, <3>1
        <5> QED BY <4>1, <5>1, <2>4
      <4>2. CASE i # k
        <5>1. i \in 0 .. k - 1 /\ (i # 0 => i - 1 \in 0 .. k - 1)
          BY <2>3, <4>2
        <5> HIDE DEF g
        <5> QED BY <3>1, <5>1
      <4> QED BY <4>1, <4>2
    <3>3. g = [i \in 0 .. k |-> g[i]]
      OBVIOUS
    <3> HIDE DEF g
    <3> QED BY <3>2, <3>3
  <2> QED BY <2>3, <2>7
<1>2. PICK h : Good(h, Last)
  BY <1>0, <1>1
<1>3. Good(CHOOSE g : Good(g, Last), Last)
  BY <1>2
<1>4. Executions(c, m) = CHOOSE g : Good(g, Last)
  BY DEF Executions, Last, Next1
<1>5. Good(Executions(c, m), Last)
  BY <1>3, <1>4
<1>6. /\ Executions(c, m)[0] = m
      /\ \A j \in 1 .. Last : Executions(c, m)[j] = Next1(j, Executions(c, m)[j - 1])
  BY <1>0, <1>5
<1> QED BY <1>6 DEF Last, Next1

-----------------------------------------------------------------------------
(***************************************************************************)
(* The calls of a dispatch                                                 *)
(***************************************************************************)

\* Quotient and remainder exist, and are unique.
LEMMA Division ==
  ASSUME NEW p \in Nat \ {0}, NEW n \in Nat
  PROVE  /\ n \div p \in Nat /\ n % p \in 0 .. p - 1
         /\ n = (n \div p) * p + (n % p)
<1>1. n = p * (n \div p) + (n % p)
  OBVIOUS
<1>2. n % p \in 0 .. p - 1 /\ n \div p \in Int
  BY PeriodSplit
<1> DEFINE d == n \div p
           r == n % p
<1> HIDE DEF d, r
<1>3. d \in Int /\ r \in 0 .. p - 1 /\ n = d * p + r
  BY <1>1, <1>2 DEF d, r
<1>4. d >= 0
  <2>1. CASE d <= -1
    <3>1. d * p <= -1 * p
      BY <1>3, <2>1
    <3> QED BY <1>3, <3>1
  <2> QED BY <1>3, <2>1
<1> QED BY <1>1, <1>2, <1>3, <1>4 DEF d

LEMMA Divided ==
  ASSUME NEW p \in Nat \ {0}, NEW q \in Nat, NEW r \in 0 .. p - 1
  PROVE  (q * p + r) \div p = q /\ (q * p + r) % p = r
<1> DEFINE n == q * p + r
           d == n \div p
<1>1. n \in Nat
  OBVIOUS
<1>2. n % p = r
  <2>1. \A k \in Int, m \in 0 .. p - 1 : (k * p + m) % p = m
    OBVIOUS
  <2> QED BY <2>1
<1>3. d \in Nat /\ n = d * p + r
  BY <1>1, <1>2, Division
<1>4. (q - d) * p = 0
  BY <1>3
<1>5. q - d = 0
  BY <1>3, <1>4
<1> QED BY <1>2, <1>3, <1>5

\* One step further, in the same period or the next.
LEMMA DivideNext ==
  ASSUME NEW p \in Nat \ {0}, NEW n \in Nat
  PROVE  /\ n % p < p - 1 => (n + 1) \div p = n \div p /\ (n + 1) % p = (n % p) + 1
         /\ n % p = p - 1 => (n + 1) \div p = n \div p + 1 /\ (n + 1) % p = 0
<1> DEFINE q == n \div p
           r == n % p
<1>1. q \in Nat /\ r \in 0 .. p - 1 /\ n = q * p + r
  BY Division
<1> HIDE DEF q, r
<1>2. CASE r < p - 1
  <2>1. n + 1 = q * p + (r + 1) /\ r + 1 \in 0 .. p - 1
    BY <1>1, <1>2
  <2>2. (q * p + (r + 1)) \div p = q /\ (q * p + (r + 1)) % p = r + 1
    BY <1>1, <2>1, Divided
  <2>3. (n + 1) \div p = q /\ (n + 1) % p = r + 1
    BY <2>1, <2>2
  <2> QED BY <1>1, <1>2, <2>3 DEF q, r
<1>3. CASE r = p - 1
  <2>1. n + 1 = (q + 1) * p + 0 /\ 0 \in 0 .. p - 1 /\ q + 1 \in Nat
    BY <1>1, <1>3
  <2>2. ((q + 1) * p + 0) \div p = q + 1 /\ ((q + 1) * p + 0) % p = 0
    BY <2>1, Divided
  <2>3. (n + 1) \div p = q + 1 /\ (n + 1) % p = 0
    BY <2>1, <2>2
  <2> QED BY <1>1, <1>3, <2>3 DEF q, r
<1> QED BY <1>1, <1>2, <1>3 DEF q, r

\* The executions among the first n calls of runs of p calls each, r of them
\* reconfigurations and then k executions.
InRun(i, r, k) == IF i <= r THEN 0 ELSE IF i <= r + k THEN i - r ELSE k
Done(n, r, k, p) == (n \div p) * k + InRun(n % p, r, k)

\* How that number grows from call to call.
Grows(n, r, k, p, runs) ==
  /\ n % p < r \/ n % p >= r + k => Done(n + 1, r, k, p) = Done(n, r, k, p)
  /\ n % p >= r /\ n % p < r + k =>
       /\ Done(n, r, k, p) \in Nat
       /\ Done(n + 1, r, k, p) = Done(n, r, k, p) + 1
       /\ Done(n, r, k, p) \div k = n \div p
       /\ Done(n, r, k, p) + 1 <= runs * k

LEMMA DoneSteps ==
  ASSUME NEW r \in Nat, NEW k \in Nat, NEW x \in {0, 1}, NEW p \in Nat \ {0}, p = r + k + x,
         NEW runs \in Nat, NEW n \in Nat, n < runs * p
  PROVE  Grows(n, r, k, p, runs)
<1> DEFINE q == n \div p
           i == n % p
<1>1. q \in Nat /\ i \in 0 .. p - 1 /\ n = q * p + i
  BY Division
<1>2. /\ i < p - 1 => (n + 1) \div p = q /\ (n + 1) % p = i + 1
      /\ i = p - 1 => (n + 1) \div p = q + 1 /\ (n + 1) % p = 0
  BY DivideNext
<1>3. q + 1 <= runs
  <2> HIDE DEF q, i
  <2>1. CASE q >= runs
    <3>1. q * p >= runs * p
      BY <1>1, <2>1
    <3> QED BY <1>1, <3>1
  <2> QED BY <1>1, <2>1
<1>4. Done(n, r, k, p) = q * k + InRun(i, r, k)
  BY DEF Done
<1>5. /\ i < p - 1 => Done(n + 1, r, k, p) = q * k + InRun(i + 1, r, k)
      /\ i = p - 1 => Done(n + 1, r, k, p) = (q + 1) * k + InRun(0, r, k)
  BY <1>2 DEF Done
<1> HIDE DEF q, i
<1>6. (q + 1) * k = q * k + k /\ q * k \in Nat
  BY <1>1
<1>7. CASE i < r \/ i >= r + k
  <2>1. Done(n + 1, r, k, p) = Done(n, r, k, p)
    BY <1>1, <1>4, <1>5, <1>6, <1>7 DEF InRun
  <2> QED BY <1>1, <1>7, <2>1 DEF i, Grows
<1>8. CASE i >= r /\ i < r + k
  <2>1. InRun(i, r, k) = i - r /\ i - r \in 0 .. k - 1 /\ k \in Nat \ {0}
    BY <1>1, <1>8 DEF InRun
  <2>2. Done(n + 1, r, k, p) = Done(n, r, k, p) + 1 /\ Done(n, r, k, p) \in Nat
    BY <1>1, <1>4, <1>5, <1>6, <1>8, <2>1 DEF InRun
  <2>3. Done(n, r, k, p) \div k = q
    BY <1>1, <1>4, <2>1, Divided
  <2>4. (q + 1) * k <= runs * k
    BY <1>1, <1>3
  <2>5. Done(n, r, k, p) + 1 <= runs * k
    BY <1>1, <1>4, <1>6, <2>1, <2>4
  <2> QED BY <1>8, <2>2, <2>3, <2>5 DEF q, i, Grows
<1> QED BY <1>1, <1>7, <1>8

\* What a call does to memory under the configuration it is meant for.
Does(s, m) == IF s.do = "execute" THEN Executes(s.cmd, s.nth, m) ELSE m

\* The memories t that the calls go through.
Trace(t, calls) == \A j \in 1 .. Len(calls) : t[j] = Does(calls[j], t[j - 1])

LEMMA TraceDomain ==
  ASSUME NEW calls, Len(calls) \in Nat, NEW t, Trace(t, calls), DOMAIN t[0] = Buffers
  PROVE  \A j \in 0 .. Len(calls) : DOMAIN t[j] = Buffers
<1> DEFINE Bad == {j \in 0 .. Len(calls) : DOMAIN t[j] # Buffers}
<1> SUFFICES ASSUME Bad # {} PROVE FALSE
  OBVIOUS
<1>1. Bad \subseteq Nat
  OBVIOUS
<1>2. PICK j \in Bad : \A k \in Bad : j <= k
  <2> HIDE DEF Bad
  <2> QED BY <1>1, LeastNat
<1>3. j \in 1 .. Len(calls) /\ j - 1 \in 0 .. Len(calls) /\ j - 1 \notin Bad
  BY <1>2
<1>4. DOMAIN t[j - 1] = Buffers
  BY <1>3
<1>5. t[j] = Does(calls[j], t[j - 1])
  BY <1>3 DEF Trace
<1>6. DOMAIN t[j] = DOMAIN t[j - 1]
  BY <1>5 DEF Does, Executes
<1> QED BY <1>2, <1>4, <1>6

\* The calls of a dispatch, with x syncs in each of its runs.
CallsOf(calls, c, x) ==
  LET r == Reconfigures(Entry(c))
      p == r + KernelRuns + x
  IN  /\ Len(calls) = RunsOf(Entry(c)) * p
      /\ \A j \in 1 .. Len(calls) :
           /\ calls[j].cmd = c /\ calls[j].nth = 1 + (j - 1) \div p
           /\ calls[j].do = IF (j - 1) % p < r THEN "reconfigure"
                            ELSE IF (j - 1) % p < r + KernelRuns THEN "execute" ELSE "sync"

\* The calls of a dispatch have the effect of its executions.
LEMMA DispatchTrace ==
  ASSUME NEW c \in Runnable, NEW x \in {0, 1}, NEW calls, CallsOf(calls, c, x), NEW m
  PROVE  Len(calls) \in Nat /\ \E t : t[0] = m /\ Trace(t, calls) /\ t[Len(calls)] = Effect(c, m)
<1> DEFINE r == Reconfigures(Entry(c))
           p == r + KernelRuns + x
           runs == RunsOf(Entry(c))
           f == Executions(c, m)
<1>1. r \in Nat /\ runs \in Nat \ {0} /\ KernelRuns \in Nat /\ p \in Nat
  BY RepeatsType, ConstantsAssumption
<1>2. Effect(c, m) = f[runs * KernelRuns]
  <2>1. c.do = "dispatch"
    BY DEF Runnable
  <2> QED BY <2>1 DEF Effect
<1>3. /\ f[0] = m
      /\ \A j \in 1 .. runs * KernelRuns : f[j] = Executes(c, 1 + (j - 1) \div KernelRuns, f[j - 1])
  BY ExecutionsSteps
<1>4. /\ Len(calls) = runs * p
      /\ \A j \in 1 .. Len(calls) :
           /\ calls[j].cmd = c /\ calls[j].nth = 1 + (j - 1) \div p
           /\ calls[j].do = IF (j - 1) % p < r THEN "reconfigure"
                            ELSE IF (j - 1) % p < r + KernelRuns THEN "execute" ELSE "sync"
  BY DEF CallsOf
<1>5. p = r + KernelRuns + x
  OBVIOUS
<1> HIDE DEF r, p, runs, f
<1>6. Len(calls) \in Nat
  BY <1>1, <1>4, NatProduct
<1>7. CASE p = 0
  <2> DEFINE t == [j \in 0 .. 0 |-> m]
  <2>1. Len(calls) = 0 /\ KernelRuns = 0
    BY <1>1, <1>4, <1>5, <1>7
  <2>2. runs * KernelRuns = 0
    BY <1>1, <2>1
  <2>3. t[0] = m /\ Trace(t, calls) /\ t[Len(calls)] = Effect(c, m)
    BY <1>2, <1>3, <2>1, <2>2 DEF Trace
  <2> QED BY <1>6, <2>3
<1>8. CASE p > 0
  <2> DEFINE d(n) == Done(n, r, KernelRuns, p)
             t == [j \in 0 .. Len(calls) |-> f[d(j)]]
  <2>1. d(0) = 0 /\ d(Len(calls)) = runs * KernelRuns
    <3>1. (0 * p + 0) \div p = 0 /\ (0 * p + 0) % p = 0
      BY <1>1, <1>8, Divided
    <3>2. (runs * p + 0) \div p = runs /\ (runs * p + 0) % p = 0
      BY <1>1, <1>8, Divided
    <3>3. 0 \div p = 0 /\ 0 % p = 0 /\ Len(calls) \div p = runs /\ Len(calls) % p = 0
      BY <1>1, <1>4, <3>1, <3>2
    <3> QED BY <1>1, <3>3 DEF Done, InRun
  <2>2. ASSUME NEW j \in 1 .. Len(calls) PROVE t[j] = Does(calls[j], t[j - 1])
    <3> DEFINE n == j - 1
    <3>1. n \in Nat /\ n < runs * p /\ n + 1 = j /\ n \in 0 .. Len(calls)
      BY <1>4, <1>6
    <3>4. t[j] = f[d(n + 1)] /\ t[j - 1] = f[d(n)]
      BY <1>6, <3>1
    <3>5. /\ calls[j].cmd = c /\ calls[j].nth = 1 + n \div p
          /\ calls[j].do = IF n % p < r THEN "reconfigure"
                           ELSE IF n % p < r + KernelRuns THEN "execute" ELSE "sync"
      BY <1>4
    <3> HIDE DEF d, t, n
    <3>2. n % p \in 0 .. p - 1
      <4>1. p \in Nat \ {0} /\ n \in Nat
        BY <1>1, <1>8, <3>1
      <4> QED BY <4>1, Division
    <3>3. /\ n % p < r \/ n % p >= r + KernelRuns => d(n + 1) = d(n)
          /\ n % p >= r /\ n % p < r + KernelRuns =>
               /\ d(n) \in Nat /\ d(n + 1) = d(n) + 1
               /\ d(n) \div KernelRuns = n \div p
               /\ d(n) + 1 <= runs * KernelRuns
      <4>1. /\ r \in Nat /\ KernelRuns \in Nat /\ x \in {0, 1} /\ p \in Nat \ {0}
            /\ runs \in Nat /\ n \in Nat
        BY <1>1, <1>8, <3>1
      <4>2. p = r + KernelRuns + x /\ n < runs * p
        BY <1>5, <3>1
      <4>3. Grows(n, r, KernelRuns, p, runs)
        BY <4>1, <4>2, DoneSteps, Zenon
      <4> QED BY <4>3 DEF d, Grows
    <3>6. CASE n % p < r \/ n % p >= r + KernelRuns
      <4>1. calls[j].do # "execute"
        BY <1>1, <3>2, <3>5, <3>6
      <4> QED BY <3>3, <3>4, <3>6, <4>1 DEF Does
    <3>7. CASE n % p >= r /\ n % p < r + KernelRuns
      <4>1. calls[j].do = "execute"
        BY <1>1, <3>2, <3>5, <3>7
      <4>2. d(n) + 1 \in 1 .. runs * KernelRuns /\ (d(n) + 1) - 1 = d(n)
        BY <1>1, <3>3, <3>7, NatProduct
      <4>3. f[d(n) + 1] = Executes(c, 1 + d(n) \div KernelRuns, f[d(n)])
        BY <1>3, <4>2
      <4> QED BY <3>3, <3>4, <3>5, <3>7, <4>1, <4>3 DEF Does
    <3> QED BY <1>1, <3>2, <3>6, <3>7
  <2>3. t[0] = m /\ t[Len(calls)] = Effect(c, m)
    BY <1>2, <1>3, <1>6, <2>1
  <2> HIDE DEF t
  <2>4. t[0] = m /\ Trace(t, calls) /\ t[Len(calls)] = Effect(c, m)
    BY <2>2, <2>3 DEF Trace
  <2> QED BY <1>6, <2>4
<1> QED BY <1>1, <1>7, <1>8

\* An entry point without reconfigurations: it relies on a context of its own.
Plain(c) == Entry(c).reconfigurations = 0

\* The call finds the configuration it is meant for, unless it relies on its
\* context: the call before it belongs to the same run.
Configured(calls, j) ==
  /\ calls[j].do = "reconfigure" => ~Plain(calls[j].cmd)
  /\ calls[j].do = "execute" /\ ~Plain(calls[j].cmd) =>
       j > 1 /\ calls[j - 1].do # "sync" /\ calls[j - 1].cmd = calls[j].cmd /\ calls[j - 1].nth = calls[j].nth

LEMMA CallsConfigured ==
  ASSUME ReconfigureRuns > 0, NEW c \in Runnable, NEW x \in {0, 1}, NEW calls, CallsOf(calls, c, x),
         Len(calls) \in Nat, NEW j \in 1 .. Len(calls)
  PROVE  Configured(calls, j)
<1> DEFINE r == Reconfigures(Entry(c))
           p == r + KernelRuns + x
<1>1. r \in Nat /\ p \in Nat /\ KernelRuns \in Nat /\ (Plain(c) => r = 0) /\ (~Plain(c) => r > 0)
  BY RepeatsType, ConstantsAssumption DEF Reconfigures, Plain
<1>2. /\ Len(calls) = RunsOf(Entry(c)) * p
      /\ \A k \in 1 .. Len(calls) :
           /\ calls[k].cmd = c /\ calls[k].nth = 1 + (k - 1) \div p
           /\ calls[k].do = IF (k - 1) % p < r THEN "reconfigure"
                            ELSE IF (k - 1) % p < r + KernelRuns THEN "execute" ELSE "sync"
  BY DEF CallsOf
<1>3. p # 0
  <2> SUFFICES ASSUME p = 0 PROVE FALSE
    OBVIOUS
  <2>1. RunsOf(Entry(c)) * 0 = 0
    BY RepeatsType
  <2> QED BY <1>2, <2>1
<1> HIDE DEF r, p
<1>4. (j - 1) % p \in 0 .. p - 1
  <2>1. p \in Nat \ {0} /\ j - 1 \in Int
    BY <1>1, <1>3
  <2> QED BY <2>1, PeriodSplit
<1>5. calls[j].do = "reconfigure" => ~Plain(calls[j].cmd)
  <2> DEFINE i == (j - 1) % p
  <2>1. /\ calls[j].cmd = c /\ i \in Nat
        /\ calls[j].do = IF i < r THEN "reconfigure"
                         ELSE IF i < r + KernelRuns THEN "execute" ELSE "sync"
    BY <1>2, <1>4
  <2> HIDE DEF i
  <2> QED BY <1>1, <2>1
<1>6. ASSUME calls[j].do = "execute", ~Plain(c)
      PROVE  j > 1 /\ calls[j - 1].do # "sync" /\ calls[j - 1].nth = calls[j].nth
  <2>1. (j - 1) % p >= r /\ (j - 1) % p < r + KernelRuns
    BY <1>1, <1>2, <1>4, <1>6
  <2>2. j > 1
    <3>1. CASE j = 1
      <4>1. 0 % p = 0
        BY <1>1, <1>3
      <4> QED BY <1>1, <1>6, <2>1, <3>1, <4>1
    <3> QED BY <3>1
  <2> DEFINE n == j - 2
  <2>3. n \in Nat /\ n + 1 = j - 1 /\ (j - 1) - 1 = n /\ j - 1 \in 1 .. Len(calls)
    BY <2>2
  <2>4. p \in Nat \ {0}
    BY <1>1, <1>3
  <2> HIDE DEF n
  <2>5. n % p \in 0 .. p - 1
    <3>1. p \in Nat \ {0} /\ n \in Int
      BY <2>3, <2>4
    <3> QED BY ONLY <3>1, PeriodSplit
  <2>6. n % p < p - 1
    <3>1. CASE n % p = p - 1
      <4>1. (n + 1) % p = 0
        BY <2>3, <2>4, <3>1, DivideNext
      <4> QED BY <1>1, <1>6, <2>1, <2>3, <4>1
    <3> QED BY <2>4, <2>5, <3>1
  <2>7. (n + 1) \div p = n \div p /\ (n + 1) % p = (n % p) + 1
    BY <2>3, <2>4, <2>6, DivideNext
  <2>8. n % p < r + KernelRuns
    BY <1>1, <2>1, <2>3, <2>5, <2>7
  <2>9. calls[j - 1].do # "sync"
    <3>1. calls[j - 1].do = IF n % p < r THEN "reconfigure"
                            ELSE IF n % p < r + KernelRuns THEN "execute" ELSE "sync"
      BY <1>2, <2>3
    <3> QED BY <2>8, <3>1
  <2>10. calls[j - 1].nth = 1 + n \div p /\ calls[j].nth = 1 + (n + 1) \div p
    BY <1>2, <2>3
  <2> QED BY <2>2, <2>7, <2>9, <2>10
<1>7. calls[j].cmd = c /\ (j > 1 => calls[j - 1].cmd = c)
  BY <1>2
<1> QED BY <1>5, <1>6, <1>7 DEF Configured

\* Both ways to submit a dispatch make these calls.
LEMMA SlotsAreCalls ==
  ASSUME NEW c \in Runnable
  PROVE  CallsOf(Slots(c), c, 0)
<1> DEFINE r == Reconfigures(Entry(c))
           p == r + KernelRuns
           count == RunsOf(Entry(c)) * p
           slot(j) == [do |-> IF (j - 1) % p < r THEN "reconfigure" ELSE "execute",
                       nth |-> 1 + (j - 1) \div p, cmd |-> c]
<1>1. r \in Nat /\ p \in Nat /\ KernelRuns \in Nat /\ RunsOf(Entry(c)) \in Nat /\ p + 0 = p
  BY RepeatsType, ConstantsAssumption
<1>2. Slots(c) = [j \in 1 .. count |-> slot(j)]
  BY DEF Slots
<1>3. count \in Nat /\ (count # 0 => p \in Nat \ {0})
  BY <1>1, NatProduct
<1> HIDE DEF p, r, count
<1>4. Len(Slots(c)) = count
  BY <1>2, <1>3
<1>5. ASSUME NEW j \in 1 .. count
      PROVE  /\ Slots(c)[j].cmd = c /\ Slots(c)[j].nth = 1 + (j - 1) \div p
             /\ Slots(c)[j].do = IF (j - 1) % p < r THEN "reconfigure"
                                 ELSE IF (j - 1) % p < r + KernelRuns THEN "execute" ELSE "sync"
  <2>1. Slots(c)[j] = slot(j)
    BY <1>2
  <2>2. (j - 1) % p < r + KernelRuns
    <3>1. p \in Nat \ {0} /\ j - 1 \in Int
      BY <1>3
    <3>2. (j - 1) % p \in 0 .. p - 1
      BY <3>1, PeriodSplit
    <3> QED BY <1>1, <3>2 DEF p
  <2> QED BY <2>1, <2>2
<1>6. r + KernelRuns + 0 = p
  BY <1>1 DEF p
<1> QED BY <1>4, <1>5, <1>6 DEF CallsOf, r, count

LEMMA CallsAreCalls ==
  ASSUME NEW c \in Runnable
  PROVE  \E x \in {0, 1} : CallsOf(Calls(c), c, x)
<1> DEFINE x == IF KernelRuns = 0 THEN 0 ELSE 1
           r == Reconfigures(Entry(c))
           p == r + KernelRuns + x
           count == RunsOf(Entry(c)) * p
           call(j) == [do |-> IF (j - 1) % p < r THEN "reconfigure"
                              ELSE IF (j - 1) % p < r + KernelRuns THEN "execute" ELSE "sync",
                       nth |-> 1 + (j - 1) \div p, cmd |-> c]
<1>1. r \in Nat /\ KernelRuns \in Nat /\ RunsOf(Entry(c)) \in Nat /\ x \in {0, 1} /\ p \in Nat
  BY RepeatsType, ConstantsAssumption
<1>2. Calls(c) = [j \in 1 .. count |-> call(j)]
  BY DEF Calls
<1>3. count \in Nat
  BY <1>1, NatProduct
<1> HIDE DEF x, p, r, count
<1>4. Len(Calls(c)) = count
  BY <1>2, <1>3
<1>6. ASSUME NEW j \in 1 .. count
      PROVE  /\ Calls(c)[j].cmd = c /\ Calls(c)[j].nth = 1 + (j - 1) \div p
             /\ Calls(c)[j].do = IF (j - 1) % p < r THEN "reconfigure"
                                 ELSE IF (j - 1) % p < r + KernelRuns THEN "execute" ELSE "sync"
  <2>1. Calls(c)[j] = call(j)
    BY <1>2
  <2> QED BY <2>1
<1>5. CallsOf(Calls(c), c, x)
  BY <1>4, <1>6 DEF CallsOf, p, r, count
<1> QED BY <1>1, <1>5

\* A call that finds the configuration it is meant for does what it should.
LEMMA SubmitDoes ==
  ASSUME NEW s \in Slot, NEW m, NEW f, s.do = "execute" => f = Intended(s.cmd, s.nth)
  PROVE  LET d == Submit(s, [dev |-> m, config |-> f])
         IN  /\ d.dev = Does(s, m)
             /\ d.config = IF s.do = "reconfigure" THEN Configuration(s.cmd, s.nth) ELSE f
<1> DEFINE d0 == [dev |-> m, config |-> f]
           v  == <<s.cmd.exe, s.cmd.entry, s.nth, d0.config, d0.dev[s.cmd.from]>>
           g  == Configuration(s.cmd, s.nth)
<1>1. CASE s.do = "reconfigure"
  <2>1. Submit(s, d0) = [d0 EXCEPT !.config = g] /\ Does(s, m) = m
    BY <1>1 DEF Submit, Does
  <2> HIDE DEF g
  <2>2. [d0 EXCEPT !.config = g].dev = m /\ [d0 EXCEPT !.config = g].config = g
    OBVIOUS
  <2> QED BY <1>1, <2>1, <2>2 DEF g
<1>2. CASE s.do = "execute"
  <2>1. Submit(s, d0) = [d0 EXCEPT !.dev[s.cmd.to] = v]
    BY <1>2 DEF Submit
  <2>2. v = <<s.cmd.exe, s.cmd.entry, s.nth, Intended(s.cmd, s.nth), m[s.cmd.from]>>
    BY <1>2
  <2>3. Does(s, m) = [m EXCEPT ![s.cmd.to] = v]
    BY <1>2, <2>2 DEF Does, Executes
  <2> HIDE DEF v
  <2>4. [d0 EXCEPT !.dev[s.cmd.to] = v].dev = [m EXCEPT ![s.cmd.to] = v]
        /\ [d0 EXCEPT !.dev[s.cmd.to] = v].config = f
    OBVIOUS
  <2> QED BY <1>2, <2>1, <2>3, <2>4
<1>3. CASE s.do = "sync"
  <2>1. Submit(s, d0) = d0 /\ Does(s, m) = m
    BY <1>3 DEF Submit, Does
  <2> QED BY <1>3, <2>1
<1> QED BY <1>1, <1>2, <1>3 DEF Slot

\* A write or a copy that does not depend on a dispatch may overtake it.
LEMMA Commute ==
  ASSUME NEW s \in Slot, NEW w, IsCommand(w), w.do \in {"write", "copy"}, NEW m, DOMAIN m = Buffers,
         w.to \notin Bindings(s.cmd), w.do = "copy" => w.from # s.cmd.to
  PROVE  Does(s, Effect(w, m)) = Effect(w, Does(s, m)) /\ DOMAIN Effect(w, m) = Buffers
<1> DEFINE c == s.cmd
<1>1. c \in Runnable /\ c.from \in Buffers /\ c.to \in Buffers
  BY RunnableType DEF Slot
<1>2. w.to \in Buffers /\ w.to # c.from /\ w.to # c.to /\ (w.do = "copy" => w.from \in Buffers)
  BY DEF IsCommand, Bindings
<1>3. CASE w.do = "write"
  <2>1. \A k : Effect(w, k) = [k EXCEPT ![w.to] = w.value]
    BY <1>3 DEF Effect
  <2>2. CASE s.do = "execute"
    <3> DEFINE v == <<c.exe, c.entry, s.nth, Intended(c, s.nth), m[c.from]>>
    <3>1. [m EXCEPT ![w.to] = w.value][c.from] = m[c.from]
      BY <1>1, <1>2
    <3>2. Does(s, m) = [m EXCEPT ![c.to] = v]
          /\ Does(s, [m EXCEPT ![w.to] = w.value]) = [[m EXCEPT ![w.to] = w.value] EXCEPT ![c.to] = v]
      BY <2>2, <3>1 DEF Does, Executes
    <3> HIDE DEF v
    <3>3. [[m EXCEPT ![w.to] = w.value] EXCEPT ![c.to] = v] = [[m EXCEPT ![c.to] = v] EXCEPT ![w.to] = w.value]
      BY <1>1, <1>2
    <3> QED BY <2>1, <3>2, <3>3
  <2> QED BY <2>1, <2>2 DEF Does
<1>4. CASE w.do = "copy"
  <2>1. \A k : Effect(w, k) = [k EXCEPT ![w.to] = k[w.from]]
    BY <1>4 DEF Effect
  <2>2. CASE s.do = "execute"
    <3> DEFINE v == <<c.exe, c.entry, s.nth, Intended(c, s.nth), m[c.from]>>
               u == m[w.from]
    <3>1. [m EXCEPT ![w.to] = u][c.from] = m[c.from]
      BY <1>1, <1>2
    <3>2. Does(s, m) = [m EXCEPT ![c.to] = v]
          /\ Does(s, [m EXCEPT ![w.to] = u]) = [[m EXCEPT ![w.to] = u] EXCEPT ![c.to] = v]
      BY <2>2, <3>1 DEF Does, Executes
    <3> HIDE DEF v
    <3>3. [m EXCEPT ![c.to] = v][w.from] = u
      BY <1>1, <1>2, <1>4
    <3> HIDE DEF u
    <3>4. [[m EXCEPT ![w.to] = u] EXCEPT ![c.to] = v] = [[m EXCEPT ![c.to] = v] EXCEPT ![w.to] = u]
      BY <1>1, <1>2
    <3>5. Effect(w, m) = [m EXCEPT ![w.to] = u]
      BY <2>1 DEF u
    <3> QED BY <2>1, <3>2, <3>3, <3>4, <3>5
  <2> QED BY <2>1, <2>2 DEF Does
<1> QED BY <1>3, <1>4

\* A group that has grown has its old slots, then those of the dispatch.
LEMMA GrownSlots ==
  ASSUME NEW g \in Group, NEW c \in Runnable
  PROVE  LET a == Len(g.slots)
             s == Grown(g, c).slots
         IN  /\ a \in Nat /\ Len(Slots(c)) \in Nat /\ Len(s) = a + Len(Slots(c))
             /\ \A j \in 1 .. a : s[j] = g.slots[j]
             /\ \A j \in 1 .. Len(Slots(c)) : s[a + j] = Slots(c)[j]
<1>1. g.slots \in Seq(Slot) /\ g.sequences \in Nat /\ g.bindings \in Seq(Buffers)
  BY DEF Group
<1>2. Slots(c) \in Seq(Slot) /\ Len(Slots(c)) \in Nat
  BY SlotsType
<1>3. Grown(g, c).slots = g.slots \o Slots(c)
  BY DEF Grown, Group
<1> QED BY <1>1, <1>2, <1>3, ConcatProperties

-----------------------------------------------------------------------------
(***************************************************************************)
(* The invariant                                                           *)
(***************************************************************************)

\* The slots of a group stem from commands already replayed, and each finds
\* its configuration or relies on the context of the group.
GroupSlots ==
  \A i \in DOMAIN groups : \A j \in DOMAIN groups[i].slots :
    /\ groups[i].slots[j].do # "sync"
    /\ Configured(groups[i].slots, j)
    /\ \E n \in 1 .. at - 1 : groups[i].slots[j].cmd = Op.commands[n]

\* The contexts that a later dispatch may be given again.
Shared == {cache[k] : k \in DOMAIN cache} \cup {exe_context[x] : x \in DOMAIN exe_context}

\* A dispatch without reconfigurations has a context of its own, which stays
\* configured as it was created.
FreshGroups ==
  \A i \in DOMAIN groups : \A j \in DOMAIN groups[i].slots : Plain(groups[i].slots[j].cmd) =>
    /\ config[groups[i].queue] = Key(Entry(groups[i].slots[j].cmd))
    /\ groups[i].queue \notin Shared
    /\ \A k \in DOMAIN groups : k # i => groups[k].queue # groups[i].queue
    /\ \A k \in DOMAIN groups[i].slots : Plain(groups[i].slots[k].cmd)

\* How many slots of the group being flushed have run.
Reached ==
  IF pc = "chain" THEN flushing.slot
  ELSE IF pc = "flush"
       THEN IF flushing.begin < Len(Flushing.slots) THEN flushing.begin ELSE Len(Flushing.slots)
       ELSE 0

\* The last slot that ran left the array configured for its run.
ConfigKept ==
  pc \in {"flush", "chain"} /\ Reached > 0 =>
    LET s == Flushing.slots[Reached]
    IN  ~Plain(s.cmd) => config[Flushing.queue] = Intended(s.cmd, s.nth)

\* The call made next finds its configuration, and so will the ones after it.
RunConfig ==
  pc = "run" =>
    /\ \A j \in 2 .. Len(run.calls) : Configured(run.calls, j)
    /\ Plain(Command) => config[run.context] = Key(Entry(Command))
    /\ run.calls[1].do = "reconfigure" => ~Plain(Command)
    /\ run.calls[1].do = "execute" => config[run.context] = Intended(Command, run.calls[1].nth)

\* What memory should be after each command of the list under way.
Reference == Memories(Op.commands, before)

\* The memories T of the groups gs lead to the memory m.
Chained(T, gs, m) ==
  /\ \A i \in 1 .. Len(gs) : Trace(T[i], gs[i].slots) /\ DOMAIN T[i][0] = Buffers
  /\ \A i \in 1 .. Len(gs) - 1 : T[i + 1][0] = T[i][Len(gs[i].slots)]
  /\ T[Len(gs)][Len(gs[Len(gs)].slots)] = m

\* The calls still to be made lead from the memory there is to the memory there
\* should be.
Leads ==
  Busy /\ (cmd_chain => ~Overtaken(Op.commands)) =>
    /\ pc = "run" =>
         \E t : Trace(t, run.calls) /\ t[0] = dev /\ t[Len(run.calls)] = Reference[at]
    /\ pc # "run" /\ groups = <<>> => dev = Reference[at - 1]
    /\ groups # <<>> =>
         \E T : Chained(T, groups, Reference[at - 1]) /\ T[Unsynced][Reached] = dev

SlotsInv == GroupSlots /\ FreshGroups /\ ConfigKept /\ RunConfig

OrderInv == SlotsInv /\ Leads /\ ChainedOrder

-----------------------------------------------------------------------------
(***************************************************************************)
(* Slots and their contexts                                                *)
(***************************************************************************)

\* A dispatch adds slots that stem from its command.
LEMMA AccumulateSlots ==
  ASSUME ReconfigureRuns > 0, TypeOK, PlaceTypes, Places, Dispatching, GroupSlots,
         NEW c \in Runnable, c = Command, NEW x \in Contexts, Accumulate(c, x)
  PROVE  GroupSlots'
<1>0. PICK n \in Nat \ {0}, g \in Group :
          /\ g.queue = x
          /\ \/ n = Len(groups) + 1 /\ g = NewGroup(x)
             \/ n = Len(groups) /\ g = groups[n]
          /\ groups' \in Seq(Group) /\ Len(groups') = n /\ groups'[n] = Grown(g, c)
          /\ \A i \in 1 .. n - 1 : i \in DOMAIN groups /\ groups'[i] = groups[i]
  <2>1. groups \in Seq(Group)
    BY DEF PlaceTypes
  <2>2. Accumulate(c, x)
    OBVIOUS
  <2> QED BY ONLY <2>1, <2>2, c \in Runnable, x \in Contexts, AccumulateGroups
<1>1. NextCommand
  BY DEF Accumulate
<1>2. at' = at + 1 /\ Op' = Op /\ at \in Nat \ {0} /\ c = Op.commands[at]
  <2>1. at \in 1 .. Len(Op.commands) /\ Len(Op.commands) \in Nat
    BY AtCommand DEF Dispatching
  <2> QED BY <1>1, <2>1 DEF NextCommand, Op, Command
<1>3. \A k : (\E m \in 1 .. at - 1 : k = Op.commands[m]) => \E m \in 1 .. at' - 1 : k = Op'.commands[m]
  BY <1>2
<1>4. \E m \in 1 .. at' - 1 : c = Op'.commands[m]
  BY <1>2
<1>5. ASSUME NEW i \in 1 .. n - 1, NEW j \in DOMAIN groups'[i].slots
      PROVE  /\ groups'[i].slots[j].do # "sync" /\ Configured(groups'[i].slots, j)
             /\ \E m \in 1 .. at' - 1 : groups'[i].slots[j].cmd = Op'.commands[m]
  <2>1. i \in DOMAIN groups /\ groups'[i] = groups[i]
    BY <1>0
  <2>2. /\ groups[i].slots[j].do # "sync" /\ Configured(groups[i].slots, j)
        /\ \E m \in 1 .. at - 1 : groups[i].slots[j].cmd = Op.commands[m]
    BY <2>1 DEF GroupSlots
  <2> QED BY <1>3, <2>1, <2>2
<1>6. ASSUME NEW j \in DOMAIN groups'[n].slots
      PROVE  /\ groups'[n].slots[j].do # "sync" /\ Configured(groups'[n].slots, j)
             /\ \E m \in 1 .. at' - 1 : groups'[n].slots[j].cmd = Op'.commands[m]
  <2> DEFINE s == Grown(g, c).slots
             a == Len(g.slots)
             b == Len(Slots(c))
  <2>2. /\ a \in Nat /\ b \in Nat /\ Len(s) = a + b
        /\ \A k \in 1 .. a : s[k] = g.slots[k]
        /\ \A k \in 1 .. b : s[a + k] = Slots(c)[k]
    BY GrownSlots
  <2>3. g.slots \in Seq(Slot) /\ DOMAIN g.slots = 1 .. a
    BY DEF Group
  <2>4. j \in 1 .. a + b
    <3>1. Grown(g, c) \in Group
      BY GrownType
    <3>2. s \in Seq(Slot)
      BY <3>1 DEF Group
    <3> QED BY <1>0, <2>2, <3>2
  <2>5. groups'[n].slots = s
    BY <1>0
  <2> HIDE DEF s, a, b
  <2>6. CASE j \in 1 .. a
    <3>1. /\ g.slots[j].do # "sync" /\ Configured(g.slots, j)
          /\ \E m \in 1 .. at - 1 : g.slots[j].cmd = Op.commands[m]
      <4>1. g # NewGroup(x)
        <5>1. NewGroup(x).slots = <<>>
          BY DEF NewGroup
        <5>2. 1 .. a # {} /\ DOMAIN <<>> = {}
          BY <2>6
        <5> QED BY <2>3, <5>1, <5>2
      <4>2. n \in DOMAIN groups /\ g = groups[n]
        BY <1>0, <4>1 DEF PlaceTypes
      <4> QED BY <2>3, <2>6, <4>2 DEF GroupSlots
    <3>2. s[j] = g.slots[j] /\ (j > 1 => s[j - 1] = g.slots[j - 1])
      BY <2>2, <2>6
    <3>3. Configured(s, j)
      BY <3>1, <3>2 DEF Configured
    <3> QED BY <1>3, <2>5, <3>1, <3>2, <3>3
  <2>7. CASE j \notin 1 .. a
    <3> DEFINE k == j - a
    <3>1. k \in 1 .. b /\ a + k = j
      BY <2>2, <2>4, <2>7
    <3>2. CallsOf(Slots(c), c, 0)
      BY SlotsAreCalls
    <3> HIDE DEF k
    <3>3. Configured(Slots(c), k) /\ Slots(c)[k].cmd = c
      BY <2>2, <3>1, <3>2, CallsConfigured DEF b, CallsOf
    <3>4. s[j] = Slots(c)[k] /\ (k > 1 => s[j - 1] = Slots(c)[k - 1] /\ j > 1)
      <4>1. s[a + k] = Slots(c)[k]
        BY <2>2, <3>1
      <4>2. ASSUME k > 1 PROVE s[j - 1] = Slots(c)[k - 1] /\ j > 1
        <5>1. k - 1 \in 1 .. b /\ a + (k - 1) = j - 1 /\ j > 1
          <6>1. a \in Nat /\ b \in Nat
            BY <2>2
          <6> QED BY ONLY <3>1, <4>2, <6>1
        <5> QED BY <2>2, <5>1
      <4> QED BY <3>1, <4>1, <4>2
    <3>5. Configured(s, j)
      BY <3>3, <3>4 DEF Configured
    <3>6. Slots(c)[k].do # "sync"
      <4>1. Slots(c)[k].do \in {"reconfigure", "execute"}
        <5>1. Slots(c)[k] = [do |-> IF (k - 1) % (Reconfigures(Entry(c)) + KernelRuns) < Reconfigures(Entry(c))
                                    THEN "reconfigure" ELSE "execute",
                             nth |-> 1 + (k - 1) \div (Reconfigures(Entry(c)) + KernelRuns), cmd |-> c]
          <6>1. DOMAIN Slots(c) = 1 .. b
            BY SlotsType DEF b
          <6> QED BY <3>1, <6>1 DEF Slots
        <5> QED BY <5>1
      <4> QED BY <4>1
    <3> QED BY <1>4, <2>5, <3>3, <3>4, <3>5, <3>6
  <2> QED BY <2>6, <2>7
<1>7. DOMAIN groups' = 1 .. n
  BY <1>0
<1> QED BY <1>5, <1>6, <1>7 DEF GroupSlots

\* The chain is dropped or kept while the list goes on.
LEMMA SlotsKept ==
  ASSUME PlaceTypes, GroupSlots,
         groups' = <<>> \/ (groups' = groups /\ Op' = Op /\ at' \in {at, at + 1})
  PROVE  GroupSlots'
<1>1. CASE groups' = <<>>
  BY <1>1 DEF GroupSlots
<1>2. CASE groups' = groups /\ Op' = Op /\ at' \in {at, at + 1}
  <2>1. \A k : (\E m \in 1 .. at - 1 : k = Op.commands[m]) => \E m \in 1 .. at' - 1 : k = Op'.commands[m]
    <3>1. at \in Nat
      BY DEF PlaceTypes
    <3>2. \A m \in 1 .. at - 1 : m \in 1 .. at' - 1
      <4>1. at' = at \/ at' = at + 1
        BY <1>2
      <4>2. CASE at' = at
        BY <4>2
      <4>3. CASE at' = at + 1
        <5>1. \A m \in 1 .. at - 1 : m \in 1 .. (at + 1) - 1
          BY <3>1
        <5> QED BY <4>3, <5>1, Zenon
      <4> QED BY <4>1, <4>2, <4>3
    <3> QED BY <1>2, <3>2
  <2>2. ASSUME NEW i \in DOMAIN groups', NEW j \in DOMAIN groups'[i].slots
        PROVE  /\ groups'[i].slots[j].do # "sync" /\ Configured(groups'[i].slots, j)
               /\ \E m \in 1 .. at' - 1 : groups'[i].slots[j].cmd = Op'.commands[m]
    <3>1. /\ groups[i].slots[j].do # "sync" /\ Configured(groups[i].slots, j)
          /\ \E m \in 1 .. at - 1 : groups[i].slots[j].cmd = Op.commands[m]
      BY <1>2 DEF GroupSlots
    <3> QED BY <1>2, <2>1, <3>1
  <2> QED BY <2>2 DEF GroupSlots
<1> QED BY <1>1, <1>2

\* What a step that is not a dispatch does to the chain.
LEMMA ChainKept ==
  ASSUME TypeOK, PlaceTypes, Places, [Next]_vars,
         ~ (DispatchFresh \/ DispatchCached \/ DispatchKept)
  PROVE  groups' = <<>> \/ (groups' = groups /\ Op' = Op /\ at' \in {at, at + 1})
<1>1. script' = script /\ item' = item => Op' = Op
  BY DEF Op
<1>2. Abort => groups' = <<>>
  BY DEF Abort
<1>3. NextCommand /\ UNCHANGED <<chainVars, historyVars>>
        => groups' = groups /\ Op' = Op /\ at' = at + 1
  BY <1>1 DEF NextCommand, chainVars
<1>4. pc \in {"start", "ended", "run"} => groups = <<>>
  BY DEF Places
<1>5. CASE QueueExecute \/ QueueCopy \/ QueueBarrier \/ QueueDealloca \/ NextOperation
  BY <1>4, <1>5 DEF QueueExecute, QueueCopy, QueueBarrier, QueueDealloca, NextOperation, Starting, chainVars
<1>6. CASE Barrier \/ Write \/ Copy
  <2>1. Abort \/ (NextCommand /\ UNCHANGED <<chainVars, historyVars>>)
    BY <1>6 DEF Barrier, Write, Copy, Fault, Refuse
  <2> QED BY <1>2, <1>3, <2>1
<1>7. CASE DispatchFails
  BY <1>2, <1>7 DEF DispatchFails, Fault, Refuse
<1>8. CASE RunCall
  BY <1>2, <1>4, <1>8 DEF RunCall, Fault, chainVars
<1>9. CASE End
  <2>1. Abort \/ (groups = <<>> /\ groups' = groups) \/ UNCHANGED <<script, item, at, groups>>
    BY <1>9 DEF End, Fault, chainVars
  <2> QED BY <1>1, <1>2, <2>1
<1>10. CASE FlushChunk
  <2>1. Abort \/ UNCHANGED <<script, item, at, groups>>
    BY <1>10 DEF FlushChunk, Fault, Refuse
  <2> QED BY <1>1, <1>2, <2>1
<1>11. CASE ChainSlot
  <2>1. Abort \/ UNCHANGED <<script, item, at, groups>>
    BY <1>11 DEF ChainSlot, Fault
  <2> QED BY <1>1, <1>2, <2>1
<1>12. CASE FlushSync
  <2>1. Abort \/ groups' = <<>> \/ UNCHANGED <<script, item, at, groups>>
    BY <1>12 DEF FlushSync, Fault, placeVars
  <2> QED BY <1>1, <1>2, <2>1
<1>13. CASE UNCHANGED vars
  BY <1>1, <1>13 DEF vars, placeVars, chainVars
<1> QED BY <1>5, <1>6, <1>7, <1>8, <1>9, <1>10, <1>11, <1>12, <1>13 DEF Next

\* The context a dispatch is given: a new one of its own, or one that is shared.
Given(c, x) ==
  \/ Plain(c) /\ NewContext(x, Key(Entry(c))) /\ Shared' = Shared
  \/ /\ ~Plain(c) /\ Shared' \subseteq Shared \cup {x}
     /\ \/ x \in Shared /\ UNCHANGED config
        \/ NewContext(x, Key(Entry(c)))

LEMMA DispatchCases ==
  ASSUME ContextTypes, TypeOK, Places, DispatchFresh \/ DispatchCached \/ DispatchKept
  PROVE  /\ Dispatching /\ Command \in Runnable
         /\ Refuse \/ \E x \in Contexts : Proceed(Command, x) /\ Given(Command, x)
<1>1. Dispatching /\ ~Invalid(Command)
  BY DEF DispatchFresh, DispatchCached, DispatchKept
<1>2. Command \in Runnable
  BY <1>1, DispatchRunnable
<1>3. Entry(Command).reconfigurations \in Nat /\ Entry(Command) \in AllEntries /\ Command.exe \in DOMAIN exe_context
  BY <1>2, RunnableType DEF EntryPoint, ContextTypes
<1>4. CASE DispatchFresh
  <2>1. PICK x \in Contexts : NewContext(x, Key(Entry(Command))) /\ Proceed(Command, x)
    BY <1>4 DEF DispatchFresh
  <2>2. Plain(Command) /\ Shared' = Shared
    BY <1>4 DEF DispatchFresh, Plain, Shared
  <2> QED BY <1>1, <1>2, <2>1, <2>2 DEF Given
<1>5. CASE DispatchCached
  <2>1. PICK x \in Contexts :
          /\ GetOrCreate(Entry(Command), x)
          /\ IF OpenCu(Command, image'[x])
             THEN /\ exe_context' = [exe_context EXCEPT ![Command.exe] = x]
                  /\ Proceed(Command, x)
             ELSE Refuse /\ UNCHANGED <<exe_context, deviceVars>>
    BY <1>5 DEF DispatchCached
  <2>2. ~Plain(Command)
    BY <1>3, <1>5 DEF DispatchCached, Plain
  <2>3. CASE ~ OpenCu(Command, image'[x])
    BY <1>1, <1>2, <2>1, <2>3
  <2>4. CASE OpenCu(Command, image'[x])
    <3>1. exe_context' = [exe_context EXCEPT ![Command.exe] = x] /\ Proceed(Command, x)
      BY <2>1, <2>4
    <3> DEFINE k == CacheKey(Entry(Command))
    <3>2. k \in DOMAIN cache
      BY <1>3 DEF ContextTypes
    <3>3. CASE cache[k] # NoContext
      <4>1. x = cache[k] /\ UNCHANGED <<image, config, cache>>
        BY <2>1, <3>3 DEF GetOrCreate
      <4>2. x \in Shared /\ Shared' \subseteq Shared \cup {x}
        BY <1>3, <3>1, <3>2, <4>1 DEF Shared
      <4> QED BY <1>1, <1>2, <2>2, <3>1, <4>1, <4>2 DEF Given
    <3>4. CASE cache[k] = NoContext
      <4>1. NewContext(x, Key(Entry(Command))) /\ cache' = [cache EXCEPT ![k] = x]
        BY <2>1, <3>4 DEF GetOrCreate
      <4> HIDE DEF k
      <4>2. Shared' \subseteq Shared \cup {x}
        BY <1>3, <3>1, <3>2, <4>1 DEF Shared
      <4> QED BY <1>1, <1>2, <2>2, <3>1, <4>1, <4>2 DEF Given
    <3> QED BY <3>3, <3>4
  <2> QED BY <2>3, <2>4
<1>6. CASE DispatchKept
  <2> DEFINE x == exe_context[Command.exe]
  <2>1. x \in Contexts \cup {NoContext} /\ x \in Shared
    BY <1>3 DEF ContextTypes, Shared
  <2>2. Refuse \/ (x \in Contexts /\ Proceed(Command, x))
    BY <1>6, <2>1 DEF DispatchKept
  <2>3. ~Plain(Command) /\ UNCHANGED config /\ Shared' = Shared
    BY <1>3, <1>6 DEF DispatchKept, Plain, contextVars, Shared
  <2>4. Given(Command, x)
    BY <2>1, <2>3 DEF Given
  <2> HIDE DEF x
  <2> QED BY <1>1, <1>2, <2>2, <2>4
<1> QED BY <1>4, <1>5, <1>6

\* A dispatch leaves the contexts of others alone.
LEMMA GivenOthers ==
  ASSUME ContextTypes, NEW c, NEW x \in Contexts, Given(c, x), NEW y \in Contexts \cap Alive, y \notin Shared
  PROVE  y # x /\ y \notin Shared' /\ config'[y] = config[y]
<1>1. NewContext(x, Key(Entry(c))) => y # x /\ config'[y] = config[y]
  BY DEF NewContext, ContextTypes
<1> QED BY <1>1 DEF Given

\* A dispatch joins the chain on a context of its own or a shared one.
LEMMA AccumulateFresh ==
  ASSUME PlaceTypes, ContextTypes, GroupImages, FreshGroups,
         NEW c \in Runnable, NEW x \in Contexts, Accumulate(c, x), Given(c, x)
  PROVE  FreshGroups'
<1>0. PICK n \in Nat \ {0}, g \in Group :
          /\ g.queue = x
          /\ \/ n = Len(groups) + 1 /\ g = NewGroup(x)
             \/ n = Len(groups) /\ g = groups[n]
          /\ groups' \in Seq(Group) /\ Len(groups') = n /\ groups'[n] = Grown(g, c)
          /\ \A i \in 1 .. n - 1 : i \in DOMAIN groups /\ groups'[i] = groups[i]
  <2>1. groups \in Seq(Group)
    BY DEF PlaceTypes
  <2>2. Accumulate(c, x)
    OBVIOUS
  <2> QED BY ONLY <2>1, <2>2, c \in Runnable, x \in Contexts, AccumulateGroups
<1>1. groups \in Seq(Group) /\ DOMAIN groups = 1 .. Len(groups) /\ DOMAIN groups' = 1 .. n
  BY <1>0 DEF PlaceTypes
<1>2. \A i \in DOMAIN groups : groups[i].queue \in Alive \cap Contexts
  BY GroupsAlive
<1>3. groups'[n].queue = x
  BY <1>0, GrownType
<1>4. ASSUME NEW i \in DOMAIN groups, NEW j \in DOMAIN groups[i].slots, Plain(groups[i].slots[j].cmd)
      PROVE  /\ groups[i].queue # x /\ groups[i].queue \notin Shared'
             /\ config'[groups[i].queue] = Key(Entry(groups[i].slots[j].cmd))
             /\ \A k \in DOMAIN groups : k # i => groups[k].queue # groups[i].queue
             /\ \A k \in DOMAIN groups[i].slots : Plain(groups[i].slots[k].cmd)
  <2>1. /\ config[groups[i].queue] = Key(Entry(groups[i].slots[j].cmd))
        /\ groups[i].queue \notin Shared
        /\ \A k \in DOMAIN groups : k # i => groups[k].queue # groups[i].queue
        /\ \A k \in DOMAIN groups[i].slots : Plain(groups[i].slots[k].cmd)
    BY <1>4 DEF FreshGroups
  <2>2. groups[i].queue \in Contexts \cap Alive
    BY <1>2
  <2>3. groups[i].queue # x /\ groups[i].queue \notin Shared' /\ config'[groups[i].queue] = config[groups[i].queue]
    BY <2>1, <2>2, GivenOthers
  <2> QED BY <2>1, <2>3
<1>5. ASSUME NEW i \in DOMAIN groups', i # n, NEW j \in DOMAIN groups'[i].slots, Plain(groups'[i].slots[j].cmd)
      PROVE  /\ config'[groups'[i].queue] = Key(Entry(groups'[i].slots[j].cmd))
             /\ groups'[i].queue \notin Shared'
             /\ \A k \in DOMAIN groups' : k # i => groups'[k].queue # groups'[i].queue
             /\ \A k \in DOMAIN groups'[i].slots : Plain(groups'[i].slots[k].cmd)
  <2>1. i \in DOMAIN groups /\ groups'[i] = groups[i]
    BY <1>0, <1>1, <1>5
  <2>2. /\ groups[i].queue # x /\ groups[i].queue \notin Shared'
        /\ config'[groups[i].queue] = Key(Entry(groups[i].slots[j].cmd))
        /\ \A k \in DOMAIN groups : k # i => groups[k].queue # groups[i].queue
        /\ \A k \in DOMAIN groups[i].slots : Plain(groups[i].slots[k].cmd)
    BY <1>4, <1>5, <2>1
  <2>3. \A k \in DOMAIN groups' : k # i => groups'[k].queue # groups'[i].queue
    <3> TAKE k \in DOMAIN groups'
    <3>1. CASE k = n
      BY <1>3, <2>1, <2>2, <3>1
    <3>2. CASE k # n
      <4>1. k \in DOMAIN groups /\ groups'[k] = groups[k]
        BY <1>0, <1>1, <3>2
      <4> QED BY <2>1, <2>2, <4>1
    <3> QED BY <3>1, <3>2
  <2> QED BY <2>1, <2>2, <2>3
<1>6. ASSUME NEW j \in DOMAIN groups'[n].slots, Plain(groups'[n].slots[j].cmd)
      PROVE  /\ config'[groups'[n].queue] = Key(Entry(groups'[n].slots[j].cmd))
             /\ groups'[n].queue \notin Shared'
             /\ \A k \in DOMAIN groups' : k # n => groups'[k].queue # groups'[n].queue
             /\ \A k \in DOMAIN groups'[n].slots : Plain(groups'[n].slots[k].cmd)
  <2>1. \A k \in DOMAIN groups'[n].slots :
          groups'[n].slots[k].cmd = c \/ \E m \in DOMAIN g.slots : groups'[n].slots[k] = g.slots[m]
    BY <1>0, GrownType
  <2>2. \A m \in DOMAIN g.slots : ~Plain(g.slots[m].cmd)
    <3>1. CASE g = NewGroup(x)
      BY <3>1 DEF NewGroup
    <3>2. CASE n = Len(groups) /\ g = groups[n]
      <4>1. n \in DOMAIN groups
        BY <1>1, <3>2
      <4> QED BY <1>0, <1>4, <3>2, <4>1
    <3> QED BY <1>0, <3>1, <3>2
  <2>3. groups'[n].slots[j].cmd = c /\ Plain(c)
    BY <1>6, <2>1, <2>2
  <2>4. NewContext(x, Key(Entry(c))) /\ Shared' = Shared
    BY <2>3 DEF Given
  <2>5. x \notin Alive /\ config'[x] = Key(Entry(c))
    BY <2>4 DEF NewContext, ContextTypes
  <2>6. x \notin Shared
    BY <2>5, ConstantsAssumption DEF Alive, Shared
  <2>7. n = Len(groups) + 1 /\ g = NewGroup(x)
    <3>1. CASE n = Len(groups) /\ g = groups[n]
      <4>1. n \in DOMAIN groups
        BY <1>1, <3>1
      <4> QED BY <1>0, <1>2, <2>5, <3>1, <4>1
    <3> QED BY <1>0, <3>1
  <2>8. \A k \in DOMAIN groups' : k # n => groups'[k].queue # x
    <3> TAKE k \in DOMAIN groups'
    <3> HAVE k # n
    <3>1. k \in 1 .. n - 1
      BY <1>1
    <3>2. k \in DOMAIN groups /\ groups'[k] = groups[k]
      BY <1>0, <3>1
    <3> QED BY <1>2, <2>5, <3>2
  <2>9. \A k \in DOMAIN groups'[n].slots : groups'[n].slots[k].cmd = c
    <3>1. g.slots = <<>>
      BY <2>7 DEF NewGroup
    <3>2. DOMAIN g.slots = {}
      BY <3>1
    <3> QED BY <2>1, <3>2
  <2> QED BY <1>3, <2>3, <2>4, <2>5, <2>6, <2>8, <2>9
<1> QED BY <1>5, <1>6 DEF FreshGroups

\* The slot that runs next finds the configuration it is meant for.
LEMMA ChainFinds ==
  ASSUME PlaceTypes, Places, GroupSlots, FreshGroups, ConfigKept, pc = "chain"
  PROVE  LET s == Flushing.slots[flushing.slot + 1]
         IN  s.do = "execute" => config[Flushing.queue] = Intended(s.cmd, s.nth)
<1> DEFINE slots == Flushing.slots
           next == flushing.slot + 1
           s == slots[next]
<1>1. flushing.group \in DOMAIN groups /\ next \in DOMAIN slots /\ flushing.slot \in Nat
  BY ChainAt DEF PlaceTypes
<1>2. Configured(slots, next)
  BY <1>1 DEF GroupSlots, Flushing
<1>3. ASSUME Plain(s.cmd) PROVE config[Flushing.queue] = Key(Entry(s.cmd))
  BY <1>1, <1>3 DEF FreshGroups, Flushing
<1>4. CASE Plain(s.cmd)
  BY <1>3, <1>4 DEF Intended, Plain
<1>5. CASE ~Plain(s.cmd) /\ s.do = "execute"
  <2>1. next > 1 /\ slots[next - 1].cmd = s.cmd /\ slots[next - 1].nth = s.nth
    BY <1>2, <1>5 DEF Configured
  <2>2. Reached = flushing.slot /\ next - 1 = flushing.slot /\ flushing.slot > 0
    BY <1>1, <2>1 DEF Reached
  <2> HIDE DEF s, next, slots
  <2>3. slots[Reached].cmd = s.cmd /\ slots[Reached].nth = s.nth /\ Reached > 0
    BY <2>1, <2>2
  <2>4. ~Plain(slots[Reached].cmd) => config[Flushing.queue] = Intended(slots[Reached].cmd, slots[Reached].nth)
    BY <2>3 DEF ConfigKept, slots
  <2>5. config[Flushing.queue] = Intended(s.cmd, s.nth)
    BY <1>5, <2>3, <2>4
  <2> QED BY <2>5 DEF s, next, slots
<1> QED BY <1>4, <1>5

\* What the slot does, and what it leaves.
LEMMA ChainRan ==
  ASSUME TypeOK, PlaceTypes, ContextTypes, Places, GroupSlots, FreshGroups, ConfigKept, ChainSlot, ~Fault
  PROVE  /\ pc = "chain" /\ flushing.slot + 1 \in DOMAIN Flushing.slots
         /\ UNCHANGED <<script, item, at, status, run, groups, max_slots, before, cache, exe_context>>
         /\ dev' = Does(Flushing.slots[flushing.slot + 1], dev)
         /\ LET s == Flushing.slots[flushing.slot + 1]
            IN  config' = [config EXCEPT ![Flushing.queue] =
                             IF s.do = "reconfigure" THEN Configuration(s.cmd, s.nth) ELSE @]
<1> DEFINE x == Flushing.queue
           next == flushing.slot + 1
           s == Flushing.slots[next]
           d == Submit(s, [dev |-> dev, config |-> config[x]])
<1>1. pc = "chain"
  BY DEF ChainSlot
<1>2. /\ dev' = d.dev /\ config' = [config EXCEPT ![x] = d.config]
      /\ UNCHANGED <<script, item, at, status, run, groups, max_slots, historyVars, cache, exe_context>>
  BY DEF ChainSlot
<1>3. next \in DOMAIN Flushing.slots /\ s \in Slot
  BY <1>1, ChainAt
<1>4. s.do = "execute" => config[x] = Intended(s.cmd, s.nth)
  BY <1>1, ChainFinds
<1> HIDE DEF s, x, next
<1>5. d.dev = Does(s, dev) /\ d.config = IF s.do = "reconfigure" THEN Configuration(s.cmd, s.nth) ELSE config[x]
  BY <1>3, <1>4, SubmitDoes
<1> HIDE DEF d
<1>6. config' = [config EXCEPT ![x] = IF s.do = "reconfigure" THEN Configuration(s.cmd, s.nth) ELSE @]
  BY <1>2, <1>5
<1>7. UNCHANGED before
  BY <1>2 DEF historyVars
<1> QED BY <1>1, <1>2, <1>3, <1>5, <1>6, <1>7 DEF s, x, next

\* How far the flush has come after each of its steps.
LEMMA ReachedChunk ==
  ASSUME PlaceTypes, Places, FlushChunk, pc' = "chain"
  PROVE  /\ pc = "flush" /\ Reached' = Reached /\ Flushing' = Flushing /\ flushing'.group = flushing.group
         /\ UNCHANGED <<script, item, at, status, run, groups, before, dev, config>>
<1>1. /\ pc = "flush" /\ flushing.begin < Len(Flushing.slots)
      /\ flushing' = [flushing EXCEPT !.slot = flushing.begin]
      /\ UNCHANGED <<script, item, at, status, run, groups, max_slots, historyVars>>
      /\ UNCHANGED <<deviceVars, contextVars>>
  BY DEF FlushChunk, Refuse, Fault, Abort
<1>2. flushing'.group = flushing.group /\ flushing'.slot = flushing.begin
  BY <1>1 DEF PlaceTypes
<1> QED BY <1>1, <1>2 DEF Reached, Flushing, historyVars, deviceVars, contextVars

LEMMA ReachedSlot ==
  ASSUME PlaceTypes, Places, ChainSlot, ~Fault
  PROVE  /\ pc' \in {"flush", "chain"} /\ Reached = flushing.slot /\ Reached' = flushing.slot + 1
         /\ Flushing' = Flushing /\ flushing'.group = flushing.group
<1>1. /\ pc = "chain" /\ UNCHANGED <<groups, max_slots>>
      /\ IF flushing.slot + 1 < ChunkEnd(flushing.begin)
         THEN flushing' = [flushing EXCEPT !.slot = flushing.slot + 1] /\ UNCHANGED pc
         ELSE flushing' = [flushing EXCEPT !.begin = @ + max_slots] /\ pc' = "flush"
  BY DEF ChainSlot
<1>2. Reached = flushing.slot /\ flushing'.group = flushing.group
  BY <1>1 DEF Reached, PlaceTypes
<1>3. Flushing' = Flushing
  BY <1>1, <1>2 DEF Flushing
<1>4. CASE flushing.slot + 1 < ChunkEnd(flushing.begin)
  <2>1. pc' = "chain" /\ flushing'.slot = flushing.slot + 1
    BY <1>1, <1>4 DEF PlaceTypes
  <2> QED BY <1>2, <1>3, <2>1 DEF Reached
<1>5. CASE ~ (flushing.slot + 1 < ChunkEnd(flushing.begin))
  <2>1. pc' = "flush" /\ flushing'.begin = flushing.begin + max_slots
    BY <1>1, <1>5 DEF PlaceTypes
  <2>2. flushing.begin \in Nat /\ flushing.slot \in Nat /\ max_slots \in Nat
    BY DEF PlaceTypes
  <2>3. flushing.slot < ChunkEnd(flushing.begin)
    BY <1>1 DEF Places
  <2>4. Len(Flushing.slots) \in Nat
    BY <1>1, ChainAt
  <2>5. ChunkEnd(flushing.begin) \in Nat
    BY <2>2, <2>4 DEF ChunkEnd
  <2>6. flushing.slot + 1 = ChunkEnd(flushing.begin)
    BY <1>5, <2>2, <2>3, <2>5
  <2>7. Reached' = IF flushing.begin + max_slots < Len(Flushing.slots)
                   THEN flushing.begin + max_slots ELSE Len(Flushing.slots)
    BY <1>3, <2>1 DEF Reached
  <2>8. Reached' = ChunkEnd(flushing.begin)
    BY <2>7 DEF ChunkEnd
  <2> QED BY <1>2, <1>3, <2>1, <2>6, <2>8
<1> QED BY <1>4, <1>5

\* A group starts with its first slot.
LEMMA ReachedFirst ==
  ASSUME PlaceTypes', Places', pc' = "flush", NEW g \in Nat \ {0}, flushing' = FirstOf(g)
  PROVE  Reached' = 0 /\ flushing'.group = g
<1>1. flushing'.begin = 0 /\ flushing'.group = g
  BY DEF FirstOf
<1>2. (PlaceTypes /\ Places /\ pc \in {"flush", "chain"} => Len(Flushing.slots) \in Nat)'
  BY ChainAt, PTL
<1>3. Len(Flushing.slots)' \in Nat
  BY <1>2
<1> QED BY <1>1, <1>3 DEF Reached

\* Running a slot leaves the contexts of the others, and its own when it relies
\* on it, as they are configured.
LEMMA ChainFresh ==
  ASSUME TypeOK, PlaceTypes, ContextTypes, Places, GroupSlots, FreshGroups, ConfigKept, ChainSlot, ~Fault
  PROVE  FreshGroups' /\ ConfigKept' /\ RunConfig'
<1> DEFINE s == Flushing.slots[flushing.slot + 1]
           x == Flushing.queue
           f == flushing.group
           n == flushing.slot + 1
<1>1. /\ pc = "chain" /\ n \in DOMAIN Flushing.slots
      /\ groups' = groups /\ cache' = cache /\ exe_context' = exe_context
      /\ config' = [config EXCEPT ![x] = IF s.do = "reconfigure" THEN Configuration(s.cmd, s.nth) ELSE @]
  BY ChainRan
<1>2. f \in DOMAIN groups /\ groups[f] = Flushing /\ x \in Contexts /\ DOMAIN config = Contexts /\ n \in Nat \ {0}
  BY <1>1, ChainAt DEF Flushing, ContextTypes, PlaceTypes
<1>3. config'[x] = IF s.do = "reconfigure" THEN Configuration(s.cmd, s.nth) ELSE config[x]
  BY <1>1, <1>2
<1>4. \A y \in Contexts : y # x => config'[y] = config[y]
  BY <1>1, <1>2
<1>5. s.do = "reconfigure" => ~Plain(s.cmd)
  BY <1>1, <1>2 DEF GroupSlots, Configured
<1>6. Shared' = Shared
  BY <1>1 DEF Shared
<1>7. FreshGroups'
  <2> SUFFICES ASSUME NEW i \in DOMAIN groups, NEW j \in DOMAIN groups[i].slots, Plain(groups[i].slots[j].cmd)
               PROVE  config'[groups[i].queue] = config[groups[i].queue]
    BY <1>1, <1>6 DEF FreshGroups
  <2>1. /\ \A k \in DOMAIN groups : k # i => groups[k].queue # groups[i].queue
        /\ \A k \in DOMAIN groups[i].slots : Plain(groups[i].slots[k].cmd)
    BY DEF FreshGroups
  <2>2. groups[i].queue \in Contexts
    <3>1. groups[i] \in Group
      BY DEF PlaceTypes
    <3> QED BY <3>1 DEF Group
  <2>3. CASE i = f
    <3>1. Plain(s.cmd)
      BY <1>1, <1>2, <2>1, <2>3
    <3> QED BY <1>2, <1>3, <1>5, <2>3, <3>1
  <2>4. CASE i # f
    BY <1>2, <1>4, <2>1, <2>2, <2>4
  <2> QED BY <2>3, <2>4
<1>8. pc' \in {"flush", "chain"} /\ Reached' = n /\ Flushing' = Flushing
  BY ReachedSlot
<1>9. ConfigKept'
  <2>1. ASSUME ~Plain(s.cmd) PROVE config'[x] = Intended(s.cmd, s.nth)
    <3>1. CASE s.do = "reconfigure"
      <4>1. config'[x] = Configuration(s.cmd, s.nth)
        BY <1>3, <3>1
      <4> QED BY <2>1, <4>1 DEF Intended, Plain
    <3>2. CASE s.do # "reconfigure"
      <4>1. s.do = "execute"
        <5>1. s \in Slot /\ s.do # "sync"
          BY <1>1, <1>2, ChainAt DEF GroupSlots
        <5> QED BY <3>2, <5>1 DEF Slot
      <4>2. config[x] = Intended(s.cmd, s.nth)
        BY <1>1, <4>1, ChainFinds
      <4> QED BY <1>3, <3>2, <4>2
    <3> QED BY <3>1, <3>2
  <2>2. Flushing'.slots[Reached'] = s /\ Flushing'.queue = x
    BY <1>8
  <2> HIDE DEF s, x
  <2> QED BY <2>1, <2>2 DEF ConfigKept
<1>10. RunConfig'
  BY <1>8 DEF RunConfig
<1> QED BY <1>7, <1>9, <1>10

\* The calls of a dispatch on its context.
LEMMA RunConfigured ==
  ASSUME ReconfigureRuns > 0, ContextTypes, NEW c \in Runnable, NEW x \in Contexts, Given(c, x), c = Command,
         Op' = Op, at' = at, Calls(c) # <<>>, pc' = "run", run' = [context |-> x, calls |-> Calls(c)]
  PROVE  RunConfig'
<1>1. Command' = c
  BY DEF Command
<1>2. run'.context = x /\ run'.calls = Calls(c) /\ Calls(c) \in Seq(Slot) /\ Len(Calls(c)) \in Nat \ {0}
  <2>1. Calls(c) \in Seq(Slot)
    BY CallsType
  <2> QED BY <2>1
<1>3. PICK b \in {0, 1} : CallsOf(Calls(c), c, b)
  BY CallsAreCalls
<1>4. \A j \in 1 .. Len(Calls(c)) : Configured(Calls(c), j) /\ Calls(c)[j].cmd = c
  BY <1>2, <1>3, CallsConfigured DEF CallsOf
<1>5. Plain(c) => config'[x] = Key(Entry(c))
  BY DEF Given, NewContext, ContextTypes
<1>6. 1 \in 1 .. Len(Calls(c))
  BY <1>2
<1>7. /\ Calls(c)[1].do = "reconfigure" => ~Plain(c)
      /\ Calls(c)[1].do = "execute" => Plain(c)
  BY <1>4, <1>6 DEF Configured
<1>8. Calls(c)[1].do = "execute" => config'[x] = Intended(c, Calls(c)[1].nth)
  BY <1>5, <1>7 DEF Intended, Plain
<1>9. \A j \in 2 .. Len(Calls(c)) : Configured(Calls(c), j)
  BY <1>2, <1>4
<1> QED BY <1>1, <1>2, <1>5, <1>7, <1>8, <1>9 DEF RunConfig

\* What a call does, and what it leaves.
LEMMA RunRan ==
  ASSUME TypeOK, PlaceTypes, ContextTypes, Places, RunConfig, RunCall, ~Fault
  PROVE  /\ pc = "run" /\ dev' = Does(run.calls[1], dev)
         /\ LET s == run.calls[1]
            IN  config'[run.context] = IF s.do = "reconfigure" THEN Configuration(s.cmd, s.nth)
                                                              ELSE config[run.context]
         /\ UNCHANGED <<script, item, status, groups, before>>
         /\ IF Len(run.calls) = 1 THEN pc' = "replay" /\ at' = at + 1
            ELSE /\ pc' = "run" /\ at' = at
                 /\ run'.context = run.context /\ run'.calls = Tail(run.calls)
<1> DEFINE x == run.context
           s == run.calls[1]
           d == Submit(s, [dev |-> dev, config |-> config[x]])
<1>1. pc = "run"
  BY DEF RunCall
<1>2. Head(run.calls) = s /\ s \in Slot /\ s.cmd = Command /\ x \in Contexts
  BY <1>1, RunAt
<1>3. /\ dev' = d.dev /\ config' = [config EXCEPT ![x] = d.config]
      /\ IF Len(run.calls) = 1
         THEN pc' = "replay" /\ at' = at + 1 /\ run' = Idle
         ELSE UNCHANGED <<pc, at>> /\ run' = [run EXCEPT !.calls = Tail(@)]
      /\ UNCHANGED <<script, item, status, chainVars, historyVars>>
  BY <1>2 DEF RunCall
<1>4. s.do = "execute" => config[x] = Intended(s.cmd, s.nth)
  BY <1>1, <1>2 DEF RunConfig
<1> HIDE DEF s, x
<1>5. d.dev = Does(s, dev) /\ d.config = IF s.do = "reconfigure" THEN Configuration(s.cmd, s.nth) ELSE config[x]
  BY <1>2, <1>4, SubmitDoes
<1> HIDE DEF d
<1>6. config'[x] = d.config
  BY <1>2, <1>3 DEF ContextTypes
<1>7. UNCHANGED <<groups, before>>
  BY <1>3 DEF chainVars, historyVars
<1>8. IF Len(run.calls) = 1 THEN pc' = "replay" /\ at' = at + 1
      ELSE /\ pc' = "run" /\ at' = at
           /\ run'.context = run.context /\ run'.calls = Tail(run.calls)
  BY <1>1, <1>3 DEF PlaceTypes
<1> QED BY <1>1, <1>3, <1>5, <1>6, <1>7, <1>8 DEF s, x

\* The calls after the first.
LEMMA TailCalls ==
  ASSUME NEW calls \in Seq(Slot), Len(calls) \in Nat \ {0, 1}
  PROVE  /\ Len(Tail(calls)) = Len(calls) - 1
         /\ \A j \in 1 .. Len(calls) - 1 : Tail(calls)[j] = calls[j + 1]
<1>1. calls # <<>>
  OBVIOUS
<1> QED BY <1>1, HeadTailProperties

\* A call leaves the configuration that the next one is meant for.
LEMMA RunContinues ==
  ASSUME TypeOK, PlaceTypes, ContextTypes, Places, RunConfig, RunCall, ~Fault
  PROVE  RunConfig'
<1> DEFINE calls == run.calls
           x == run.context
<1>1. /\ pc = "run" /\ UNCHANGED <<script, item>>
      /\ config'[x] = IF calls[1].do = "reconfigure" THEN Configuration(calls[1].cmd, calls[1].nth) ELSE config[x]
      /\ IF Len(calls) = 1 THEN pc' = "replay" /\ at' = at + 1
         ELSE /\ pc' = "run" /\ at' = at
              /\ run'.context = x /\ run'.calls = Tail(calls)
  BY RunRan
<1>2. calls \in Seq(Slot) /\ Len(calls) \in Nat \ {0} /\ \A i \in 1 .. Len(calls) : calls[i].cmd = Command
  <2>1. calls \in Seq(Slot) /\ Len(calls) \in Nat \ {0}
    BY <1>1, RunAt
  <2> QED BY <1>1, <2>1 DEF Places
<1>3. /\ \A j \in 2 .. Len(calls) : Configured(calls, j)
      /\ Plain(Command) => config[x] = Key(Entry(Command))
      /\ calls[1].do = "reconfigure" => ~Plain(Command)
      /\ calls[1].do = "execute" => config[x] = Intended(Command, calls[1].nth)
  BY <1>1 DEF RunConfig
<1>4. CASE Len(calls) = 1
  BY <1>1, <1>4 DEF RunConfig
<1>5. CASE Len(calls) # 1
  <2> DEFINE t == Tail(calls)
  <2>0. Len(calls) \in Nat \ {0, 1}
    BY <1>2, <1>5
  <2>1. Len(t) = Len(calls) - 1 /\ \A j \in 1 .. Len(calls) - 1 : t[j] = calls[j + 1]
    BY <1>2, <2>0, TailCalls
  <2>2. pc' = "run" /\ run'.context = x /\ run'.calls = t /\ Command' = Command
    BY <1>1, <1>5 DEF Command, Op
  <2> HIDE DEF t, x, calls
  <2>3. t[1] = calls[2] /\ 2 \in 2 .. Len(calls) /\ 2 \in 1 .. Len(calls) /\ 1 \in 1 .. Len(calls)
    BY <2>0, <2>1
  <2>4. ASSUME NEW j \in 2 .. Len(t) PROVE Configured(t, j)
    <3>1. j + 1 \in 2 .. Len(calls) /\ t[j] = calls[j + 1] /\ t[j - 1] = calls[j] /\ (j + 1) - 1 = j
      BY <2>0, <2>1
    <3>2. Configured(calls, j + 1)
      BY <1>3, <3>1
    <3> QED BY <3>1, <3>2 DEF Configured
  <2>5. Plain(Command) => config'[x] = Key(Entry(Command))
    BY <1>1, <1>3 DEF calls, x
  <2>6. calls[1].cmd = Command /\ calls[2].cmd = Command /\ Configured(calls, 2)
    BY <1>2, <1>3, <2>3
  <2>7. t[1].do = "reconfigure" => ~Plain(Command)
    BY <2>3, <2>6 DEF Configured
  <2>8. ASSUME t[1].do = "execute" PROVE config'[x] = Intended(Command, t[1].nth)
    <3>1. CASE Plain(Command)
      BY <2>5, <3>1 DEF Intended, Plain
    <3>2. CASE ~Plain(Command)
      <4>1. calls[1].do # "sync" /\ calls[1].nth = t[1].nth
        BY <2>3, <2>6, <2>8, <3>2 DEF Configured
      <4>2. CASE calls[1].do = "reconfigure"
        <5>1. config'[x] = Configuration(Command, t[1].nth)
          BY <1>1, <2>6, <4>1, <4>2 DEF calls, x
        <5> QED BY <3>2, <5>1 DEF Intended, Plain
      <4>3. CASE calls[1].do = "execute"
        <5>1. config'[x] = config[x] /\ config[x] = Intended(Command, t[1].nth)
          BY <1>1, <1>3, <4>1, <4>3 DEF calls, x
        <5> QED BY <5>1
      <4>4. calls[1].do \in {"reconfigure", "execute"}
        <5>1. calls[1] \in Slot
          BY <1>2, <2>3
        <5> QED BY <4>1, <5>1 DEF Slot
      <4> QED BY <4>2, <4>3, <4>4
    <3> QED BY <3>1, <3>2
  <2>9. RunConfig' <=> /\ \A j \in 2 .. Len(t) : Configured(t, j)
                       /\ Plain(Command) => config'[x] = Key(Entry(Command))
                       /\ t[1].do = "reconfigure" => ~Plain(Command)
                       /\ t[1].do = "execute" => config'[x] = Intended(Command, t[1].nth)
    BY <2>2 DEF RunConfig
  <2> QED BY <2>4, <2>5, <2>7, <2>8, <2>9
<1> QED BY <1>4, <1>5

\* There is no chain and no dispatch under way.
LEMMA NoChain ==
  ASSUME groups' = <<>>, pc' \notin {"run", "flush", "chain"}
  PROVE  SlotsInv'
BY DEF SlotsInv, GroupSlots, FreshGroups, ConfigKept, RunConfig

\* Nothing happens to the contexts.
LEMMA ContextsKept ==
  ASSUME FreshGroups, groups' = groups, UNCHANGED <<config, cache, exe_context>>
  PROVE  FreshGroups'
<1>1. Shared' = Shared
  BY DEF Shared
<1> QED BY <1>1 DEF FreshGroups

LEMMA InvTypes == IInv => PlaceTypes /\ Places
BY TypesSplit DEF IInv

\* Every step keeps the slots and their contexts in order.
LEMMA SlotsStep ==
  ASSUME ReconfigureRuns > 0, IInv, SlotsInv, [Next]_vars
  PROVE  SlotsInv'
<1>1. /\ TypeOK /\ Shapes /\ Places /\ Images /\ PlaceTypes /\ ContextTypes
      /\ GroupSlots /\ FreshGroups /\ ConfigKept /\ RunConfig /\ GroupImages
  BY TypesSplit DEF IInv, SlotsInv, Images
<1>2. PlaceTypes' /\ Places'
  <2>1. IInv'
    BY NextIInv
  <2>2. (IInv => PlaceTypes /\ Places)'
    BY InvTypes, PTL
  <2> QED BY <2>1, <2>2
<1>3. Abort => SlotsInv'
  BY NoChain DEF Abort
<1>4. UNCHANGED contextVars => UNCHANGED <<config, cache, exe_context>>
  BY DEF contextVars
<1>5. pc \in {"start", "ended", "run"} \/ ~cmd_chain => groups = <<>>
  BY <1>1 DEF Places
<1>6. CASE DispatchFresh \/ DispatchCached \/ DispatchKept
  <2>1. Dispatching /\ Command \in Runnable
    BY <1>1, <1>6, DispatchCases
  <2>2. CASE Refuse
    BY <1>3, <2>2 DEF Refuse
  <2>3. ASSUME NEW x \in Contexts, Proceed(Command, x), Given(Command, x) PROVE SlotsInv'
    <3>1. pc = "replay"
      BY <2>1 DEF Dispatching, Replaying
    <3>2. CASE Fault \/ Refuse
      BY <1>3, <3>2 DEF Fault, Refuse
    <3>3. CASE Accumulate(Command, x)
      <4>1. pc' = "replay"
        BY <3>1, <3>3 DEF Accumulate, NextCommand
      <4>2. GroupSlots'
        BY <1>1, <2>1, <3>3, AccumulateSlots
      <4>3. FreshGroups'
        BY <1>1, <2>1, <2>3, <3>3, AccumulateFresh
      <4> QED BY <4>1, <4>2, <4>3 DEF SlotsInv, ConfigKept, RunConfig
    <3>4. CASE ~cmd_chain /\ NextCommand /\ UNCHANGED <<chainVars, deviceVars, historyVars>>
      <4>1. groups' = <<>> /\ pc' = "replay"
        BY <1>5, <3>1, <3>4 DEF NextCommand, chainVars
      <4> QED BY <4>1, NoChain
    <3>5. CASE /\ ~cmd_chain /\ Calls(Command) # <<>>
               /\ pc' = "run" /\ run' = [context |-> x, calls |-> Calls(Command)]
               /\ UNCHANGED <<script, item, at, status>>
               /\ UNCHANGED <<chainVars, deviceVars, historyVars>>
      <4>1. groups' = <<>> /\ Op' = Op
        BY <1>5, <3>5 DEF chainVars, Op
      <4>2. RunConfig'
        BY <1>1, <2>1, <2>3, <3>5, <4>1, RunConfigured
      <4> QED BY <3>5, <4>1, <4>2 DEF SlotsInv, GroupSlots, FreshGroups, ConfigKept
    <3> QED BY <2>3, <3>2, <3>3, <3>4, <3>5 DEF Proceed
  <2> QED BY <1>1, <1>6, <2>2, <2>3, DispatchCases
<1>7. CASE ~ (DispatchFresh \/ DispatchCached \/ DispatchKept)
  <2>1. GroupSlots'
    BY <1>1, <1>7, ChainKept, SlotsKept
  <2>2. CASE QueueExecute \/ QueueCopy \/ QueueBarrier \/ QueueDealloca \/ NextOperation
    <3>1. groups' = groups /\ groups = <<>> /\ pc' \notin {"run", "flush", "chain"}
      BY <1>5, <2>2 DEF QueueExecute, QueueCopy, QueueBarrier, QueueDealloca, NextOperation,
                        Starting, Succeed, chainVars
    <3> QED BY <3>1, NoChain
  <2>3. CASE Barrier \/ Write \/ Copy
    <3>1. /\ Replaying /\ UNCHANGED contextVars
          /\ Abort \/ (NextCommand /\ UNCHANGED <<chainVars, historyVars>>)
      BY <2>3 DEF Barrier, Write, Copy, Fault, Refuse
    <3>2. CASE NextCommand /\ UNCHANGED <<chainVars, historyVars>>
      <4>1. pc' = "replay" /\ groups' = groups
        BY <3>1, <3>2 DEF Replaying, NextCommand, chainVars
      <4>2. FreshGroups'
        BY <1>1, <1>4, <3>1, <4>1, ContextsKept
      <4> QED BY <2>1, <4>1, <4>2 DEF SlotsInv, ConfigKept, RunConfig
    <3> QED BY <1>3, <3>1, <3>2
  <2>4. CASE DispatchFails
    BY <1>3, <2>4 DEF DispatchFails, Fault, Refuse
  <2>5. CASE RunCall
    <3>1. CASE Fault
      BY <1>3, <3>1 DEF Fault
    <3>2. CASE ~Fault
      <4>1. RunConfig'
        BY <1>1, <2>5, <3>2, RunContinues
      <4>2. groups' = <<>> /\ pc' \notin {"flush", "chain"}
        BY <1>1, <1>5, <2>5, <3>2, RunRan
      <4> QED BY <2>1, <4>1, <4>2 DEF SlotsInv, FreshGroups, ConfigKept
    <3> QED BY <3>1, <3>2
  <2>6. CASE End
    <3>1. CASE Fault
      BY <1>3, <3>1 DEF Fault
    <3>2. CASE groups = <<>> /\ Succeed /\ UNCHANGED <<chainVars, historyVars>>
      BY <3>2, NoChain DEF Succeed, chainVars
    <3>3. CASE pc' = "flush" /\ flushing' = FirstOf(1) /\ UNCHANGED <<script, item, at, status, run, groups, historyVars>>
      <4>1. Reached' = 0
        BY <1>2, <3>3, ReachedFirst
      <4>2. FreshGroups'
        BY <1>1, <1>4, <2>6, <3>3, ContextsKept DEF End
      <4> QED BY <2>1, <3>3, <4>1, <4>2 DEF SlotsInv, ConfigKept, RunConfig
    <3> QED BY <2>6, <3>1, <3>2, <3>3 DEF End
  <2>7. CASE FlushChunk
    <3>1. CASE Abort
      BY <1>3, <3>1
    <3>2. CASE pc' = "chain"
      <4>1. pc = "flush" /\ Reached' = Reached /\ Flushing' = Flushing /\ groups' = groups /\ config' = config
        BY <1>1, <2>7, <3>2, ReachedChunk
      <4>2. FreshGroups'
        BY <1>1, <1>4, <2>7, <4>1, ContextsKept DEF FlushChunk
      <4>3. ConfigKept'
        BY <1>1, <4>1 DEF ConfigKept
      <4> QED BY <2>1, <3>2, <4>2, <4>3 DEF SlotsInv, RunConfig
    <3> QED BY <2>7, <3>1, <3>2 DEF FlushChunk, Refuse, Fault
  <2>8. CASE ChainSlot
    <3>1. CASE Fault
      BY <1>3, <3>1 DEF Fault
    <3>2. CASE ~Fault
      BY <1>1, <2>1, <2>8, <3>2, ChainFresh DEF SlotsInv
    <3> QED BY <3>1, <3>2
  <2>9. CASE FlushSync
    <3>1. CASE Fault
      BY <1>3, <3>1 DEF Fault
    <3>2. CASE Succeed /\ groups' = <<>>
      BY <3>2, NoChain DEF Succeed
    <3>3. CASE flushing' = FirstOf(flushing.group + 1) /\ UNCHANGED <<placeVars, groups>>
      <4>1. pc' = "flush" /\ groups' = groups
        BY <2>9, <3>3 DEF FlushSync, placeVars
      <4>2. flushing.group + 1 \in Nat \ {0}
        BY <1>1 DEF PlaceTypes
      <4>3. Reached' = 0
        BY <1>2, <3>3, <4>1, <4>2, ReachedFirst
      <4>4. FreshGroups'
        BY <1>1, <1>4, <2>9, <4>1, ContextsKept DEF FlushSync
      <4> QED BY <2>1, <4>1, <4>3, <4>4 DEF SlotsInv, ConfigKept, RunConfig
    <3> QED BY <2>9, <3>1, <3>2, <3>3 DEF FlushSync
  <2>10. CASE UNCHANGED vars
    <3>1. /\ UNCHANGED <<pc, run, at, script, item, groups, flushing>>
          /\ UNCHANGED <<config, cache, exe_context>>
      BY <2>10 DEF vars, placeVars, chainVars, contextVars
    <3>2. FreshGroups'
      BY <1>1, <3>1, ContextsKept
    <3>3. Op' = Op /\ Command' = Command /\ Flushing' = Flushing /\ Reached' = Reached
      BY <3>1 DEF Op, Command, Flushing, Reached
    <3>4. ConfigKept'
      BY <1>1, <3>1, <3>3 DEF ConfigKept
    <3>5. RunConfig'
      BY <1>1, <3>1, <3>3 DEF RunConfig
    <3> QED BY <2>1, <3>2, <3>4, <3>5 DEF SlotsInv
  <2> QED BY <1>7, <2>2, <2>3, <2>4, <2>5, <2>6, <2>7, <2>8, <2>9, <2>10 DEF Next
<1> QED BY <1>6, <1>7

-----------------------------------------------------------------------------
(***************************************************************************)
(* Memory                                                                  *)
(***************************************************************************)

\* The reference of the list under way.
LEMMA ListUnderWay ==
  ASSUME TypeOK, Places, Busy
  PROVE  /\ Op.kind = "execute" /\ Len(Op.commands) \in Nat /\ at \in 1 .. Len(Op.commands) + 1
         /\ Reference[0] = before
         /\ \A i \in 1 .. Len(Op.commands) : Reference[i] = Effect(Op.commands[i], Reference[i - 1])
<1>1. Op.kind = "execute" /\ at \in 1 .. Len(Op.commands) + 1
  BY DEF Places
<1>2. Len(Op.commands) \in Nat
  BY <1>1, OpType
<1> QED BY <1>1, <1>2, MemoriesSteps DEF Reference

\* The slots a group gains carry its memories on.
LEMMA GrownTrace ==
  ASSUME NEW g \in Group, NEW c \in Runnable, NEW u, Trace(u, g.slots)
  PROVE  \E v : /\ Trace(v, Grown(g, c).slots) /\ v[0] = u[0]
                /\ v[Len(Grown(g, c).slots)] = Effect(c, u[Len(g.slots)])
<1> DEFINE s == Grown(g, c).slots
           a == Len(g.slots)
           b == Len(Slots(c))
<1>1. /\ a \in Nat /\ b \in Nat /\ Len(s) = a + b
      /\ \A k \in 1 .. a : s[k] = g.slots[k]
      /\ \A k \in 1 .. b : s[a + k] = Slots(c)[k]
  BY GrownSlots
<1>2. PICK t : t[0] = u[a] /\ Trace(t, Slots(c)) /\ t[b] = Effect(c, u[a])
  BY SlotsAreCalls, DispatchTrace
<1> DEFINE v == [j \in 0 .. a + b |-> IF j <= a THEN u[j] ELSE t[j - a]]
<1>3. /\ \A k \in 1 .. a : u[k] = Does(g.slots[k], u[k - 1])
      /\ \A k \in 1 .. b : t[k] = Does(Slots(c)[k], t[k - 1])
  BY <1>2 DEF Trace
<1> HIDE DEF s, a, b
<1>4. \A j \in 0 .. a : v[j] = u[j]
  BY <1>1
<1>5. \A j \in 0 .. b : v[a + j] = t[j]
  <2> TAKE j \in 0 .. b
  <2>1. CASE j = 0
    BY <1>1, <1>2, <2>1
  <2>2. CASE j # 0
    <3>1. a + j \in 0 .. a + b /\ ~(a + j <= a) /\ (a + j) - a = j
      BY <1>1, <2>2
    <3> QED BY <3>1
  <2> QED BY <2>1, <2>2
<1> HIDE DEF v
<1>6. ASSUME NEW j \in 1 .. a + b PROVE v[j] = Does(s[j], v[j - 1])
  <2>1. CASE j <= a
    <3>1. j \in 1 .. a /\ j \in 0 .. a /\ j - 1 \in 0 .. a
      BY <1>1, <2>1
    <3> QED BY <1>1, <1>3, <1>4, <3>1
  <2>2. CASE ~(j <= a)
    <3> DEFINE k == j - a
    <3>1. k \in 1 .. b /\ k \in 0 .. b /\ k - 1 \in 0 .. b /\ a + k = j /\ a + (k - 1) = j - 1
      BY <1>1, <2>2
    <3> HIDE DEF k
    <3>2. v[j] = t[k] /\ v[j - 1] = t[k - 1] /\ s[j] = Slots(c)[k]
      BY <1>1, <1>5, <3>1
    <3>3. t[k] = Does(Slots(c)[k], t[k - 1])
      BY <1>3, <3>1
    <3> QED BY <3>2, <3>3
  <2> QED BY <2>1, <2>2
<1>7. v[0] = u[0] /\ v[a + b] = Effect(c, u[a])
  <2>1. 0 \in 0 .. a /\ b \in 0 .. b
    BY <1>1
  <2> QED BY <1>2, <1>4, <1>5, <2>1
<1>8. Trace(v, s) /\ v[0] = u[0] /\ v[Len(s)] = Effect(c, u[a])
  BY <1>1, <1>6, <1>7 DEF Trace
<1> QED BY <1>8 DEF s, a

\* Only lists in which transfers keep their distance are spoken of.
Ordinary == cmd_chain => ~Overtaken(Op.commands)

\* A dispatch that joins the chain will take effect after what is there.
LEMMA AccumulateLeads ==
  ASSUME TypeOK, PlaceTypes, DataTypes, Places, Dispatching, NEW c \in Runnable, c = Command,
         NEW x \in Contexts, Accumulate(c, x), Leads, Ordinary
  PROVE  \E T : Chained(T, groups', Reference'[at' - 1]) /\ T[Unsynced'][Reached'] = dev'
<1>0. PICK n \in Nat \ {0}, g \in Group :
          /\ g.queue = x
          /\ \/ n = Len(groups) + 1 /\ g = NewGroup(x)
             \/ n = Len(groups) /\ g = groups[n]
          /\ groups' \in Seq(Group) /\ Len(groups') = n /\ groups'[n] = Grown(g, c)
          /\ \A i \in 1 .. n - 1 : i \in DOMAIN groups /\ groups'[i] = groups[i]
  <2>1. groups \in Seq(Group)
    BY DEF PlaceTypes
  <2>2. Accumulate(c, x)
    OBVIOUS
  <2> QED BY ONLY <2>1, <2>2, c \in Runnable, x \in Contexts, AccumulateGroups
<1>1. pc = "replay" /\ pc' = "replay" /\ at' = at + 1 /\ Op' = Op /\ dev' = dev /\ before' = before
  BY DEF Dispatching, Replaying, Accumulate, NextCommand, Op, deviceVars, historyVars
<1>2. at \in 1 .. Len(Op.commands) /\ Len(Op.commands) \in Nat
  BY AtCommand DEF Dispatching
<1>3. Reference' = Reference /\ Reference[at] = Effect(c, Reference[at - 1]) /\ at' - 1 = at
  BY <1>1, <1>2, ListUnderWay DEF Busy, Reference, Command
<1>4. Unsynced = 1 /\ Reached = 0 /\ Unsynced' = 1 /\ Reached' = 0
  BY <1>1 DEF Unsynced, Reached
<1>5. /\ groups = <<>> => dev = Reference[at - 1]
      /\ groups # <<>> => \E T : Chained(T, groups, Reference[at - 1]) /\ T[1][0] = dev
  BY <1>1, <1>4 DEF Leads, Busy, Ordinary
<1>6. groups \in Seq(Group) /\ Len(groups) \in Nat /\ DOMAIN groups = 1 .. Len(groups) /\ DOMAIN dev = Buffers
  BY DEF PlaceTypes, DataTypes
<1> DEFINE m == Reference[at - 1]
<1>7. SUFFICES ASSUME NEW u, NEW S, Trace(u, g.slots), DOMAIN u[0] = Buffers, u[Len(g.slots)] = m,
                      \A i \in 1 .. n - 1 : Trace(S[i], groups[i].slots) /\ DOMAIN S[i][0] = Buffers,
                      \A i \in 1 .. n - 2 : S[i + 1][0] = S[i][Len(groups[i].slots)],
                      n > 1 => u[0] = S[n - 1][Len(groups[n - 1].slots)] /\ S[1][0] = dev,
                      n = 1 => u[0] = dev
               PROVE  \E T : Chained(T, groups', Reference'[at' - 1]) /\ T[Unsynced'][Reached'] = dev'
  <2> DEFINE none == [j \in 0 .. 0 |-> m]
  <2>1. ASSUME g = NewGroup(x) PROVE Trace(none, g.slots) /\ none[Len(g.slots)] = m /\ none[0] = m
    <3>1. g.slots = <<>>
      BY <2>1 DEF NewGroup
    <3>2. Len(g.slots) = 0
      BY <3>1
    <3> HIDE DEF m
    <3> QED BY <3>2 DEF Trace
  <2> HIDE DEF none, m
  <2>2. CASE groups = <<>>
    <3>1. n = 1 /\ g = NewGroup(x) /\ dev = m
      BY <1>0, <1>5, <1>6, <2>2 DEF m
    <3>2. Trace(none, g.slots) /\ none[Len(g.slots)] = m /\ none[0] = m
      BY <2>1, <3>1
    <3>3. DOMAIN none[0] = Buffers /\ none[0] = dev
      BY <1>6, <3>1, <3>2
    <3>4. 1 .. n - 1 = {} /\ 1 .. n - 2 = {} /\ ~(n > 1)
      BY <3>1
    <3> QED BY <1>7, <3>1, <3>2, <3>3, <3>4
  <2>3. CASE groups # <<>>
    <3>1. PICK T : Chained(T, groups, m) /\ T[1][0] = dev
      BY <1>5, <2>3 DEF m
    <3>2. /\ \A i \in 1 .. Len(groups) : Trace(T[i], groups[i].slots) /\ DOMAIN T[i][0] = Buffers
          /\ \A i \in 1 .. Len(groups) - 1 : T[i + 1][0] = T[i][Len(groups[i].slots)]
          /\ T[Len(groups)][Len(groups[Len(groups)].slots)] = m
      BY <3>1 DEF Chained
    <3>3. Len(groups) \in Nat \ {0}
      BY <1>6, <2>3
    <3>4. CASE n = Len(groups) + 1 /\ g = NewGroup(x)
      <4>1. Trace(none, g.slots) /\ none[Len(g.slots)] = m /\ none[0] = m
        BY <2>1, <3>4
      <4>2. n - 1 = Len(groups) /\ n - 2 = Len(groups) - 1 /\ n > 1 /\ Len(groups) \in 1 .. Len(groups)
        BY <3>3, <3>4
      <4>3. DOMAIN m = Buffers
        <5> DEFINE l == Len(groups)
                   sl == groups[l].slots
        <5>1. Len(sl) \in Nat
          <6>1. groups[l] \in Group
            BY <1>6, <4>2
          <6>2. sl \in Seq(Slot)
            BY <6>1 DEF Group
          <6> QED BY <6>2
        <5>2. Trace(T[l], sl) /\ DOMAIN T[l][0] = Buffers /\ T[l][Len(sl)] = m
          BY <3>2, <4>2
        <5> HIDE DEF l, sl
        <5>3. Len(sl) \in 0 .. Len(sl)
          BY <5>1
        <5> QED BY <5>1, <5>2, <5>3, TraceDomain
      <4>4. \A i \in 1 .. n - 1 : Trace(T[i], groups[i].slots) /\ DOMAIN T[i][0] = Buffers
        BY <3>2, <4>2
      <4>5. \A i \in 1 .. n - 2 : T[i + 1][0] = T[i][Len(groups[i].slots)]
        BY <3>2, <4>2
      <4>6. DOMAIN none[0] = Buffers /\ none[0] = T[n - 1][Len(groups[n - 1].slots)] /\ n # 1
        BY <3>2, <4>1, <4>2, <4>3
      <4> QED BY <1>7, <3>1, <4>1, <4>4, <4>5, <4>6
    <3>5. CASE n = Len(groups) /\ g = groups[n]
      <4>1. /\ \A i \in 1 .. n - 1 : i \in 1 .. Len(groups)
            /\ \A i \in 1 .. n - 2 : i \in 1 .. Len(groups) - 1
            /\ n \in 1 .. Len(groups)
            /\ n > 1 => n - 1 \in 1 .. Len(groups) - 1 /\ (n - 1) + 1 = n
        BY <3>3, <3>5
      <4>2. n > 1 => T[n][0] = T[n - 1][Len(groups[n - 1].slots)]
        BY <3>2, <4>1
      <4>3. Trace(T[n], g.slots) /\ DOMAIN T[n][0] = Buffers /\ T[n][Len(g.slots)] = m
        BY <3>2, <3>5, <4>1
      <4>4. \A i \in 1 .. n - 1 : Trace(T[i], groups[i].slots) /\ DOMAIN T[i][0] = Buffers
        BY <3>2, <4>1
      <4>5. \A i \in 1 .. n - 2 : T[i + 1][0] = T[i][Len(groups[i].slots)]
        BY <3>2, <4>1
      <4> QED BY <1>7, <3>1, <4>2, <4>3, <4>4, <4>5
    <3> QED BY <1>0, <3>4, <3>5
  <2> QED BY <2>2, <2>3
<1>8. PICK v : /\ Trace(v, Grown(g, c).slots) /\ v[0] = u[0]
               /\ v[Len(Grown(g, c).slots)] = Effect(c, u[Len(g.slots)])
  BY <1>7, GrownTrace
<1> DEFINE T == [i \in 1 .. n |-> IF i = n THEN v ELSE S[i]]
<1>9. T[n] = v /\ \A i \in 1 .. n - 1 : T[i] = S[i]
  OBVIOUS
<1> HIDE DEF T, m
<1>10. ASSUME NEW i \in 1 .. n PROVE Trace(T[i], groups'[i].slots) /\ DOMAIN T[i][0] = Buffers
  <2>1. CASE i = n
    BY <1>0, <1>7, <1>8, <1>9, <2>1
  <2>2. CASE i # n
    <3>1. i \in 1 .. n - 1
      BY <2>2
    <3> QED BY <1>0, <1>7, <1>9, <3>1
  <2> QED BY <2>1, <2>2
<1>11. ASSUME NEW i \in 1 .. n - 1 PROVE T[i + 1][0] = T[i][Len(groups'[i].slots)]
  <2>1. groups'[i] = groups[i] /\ T[i] = S[i]
    BY <1>0, <1>9
  <2>2. CASE i = n - 1
    <3>1. i + 1 = n /\ n > 1
      BY <2>2
    <3> QED BY <1>7, <1>8, <1>9, <2>1, <2>2, <3>1
  <2>3. CASE i # n - 1
    <3>1. i \in 1 .. n - 2 /\ i + 1 \in 1 .. n - 1
      BY <2>3
    <3> QED BY <1>7, <1>9, <2>1, <3>1
  <2> QED BY <2>2, <2>3
<1>12. T[n][Len(groups'[n].slots)] = Reference'[at' - 1]
  BY <1>0, <1>3, <1>7, <1>8, <1>9 DEF m
<1>13. T[1][0] = dev'
  <2>1. CASE n = 1
    BY <1>1, <1>7, <1>8, <1>9, <2>1
  <2>2. CASE n # 1
    <3>1. 1 \in 1 .. n - 1 /\ n > 1
      BY <2>2
    <3> QED BY <1>1, <1>7, <1>9, <3>1
  <2> QED BY <2>1, <2>2
<1>14. Chained(T, groups', Reference'[at' - 1])
  BY <1>0, <1>10, <1>11, <1>12 DEF Chained
<1> QED BY <1>4, <1>13, <1>14

\* What a write or a copy does to memory is its effect.
LEMMA TransferEffect ==
  ASSUME TypeOK, DataTypes, Places, Write \/ Copy, ~Fault
  PROVE  /\ Replaying /\ Command.do \in {"write", "copy"} /\ NextCommand
         /\ UNCHANGED <<chainVars, historyVars>> /\ dev' = Effect(Command, dev)
<1>1. Replaying
  BY DEF Write, Copy
<1>2. IsCommand(Command)
  BY <1>1, AtCommand
<1>3. CASE Write
  <2>1. Command.do = "write" /\ dev' = [dev EXCEPT ![Command.to] = Command.value] /\ NextCommand
        /\ UNCHANGED <<chainVars, historyVars>>
    BY <1>3 DEF Write
  <2> QED BY <1>1, <2>1 DEF Effect
<1>4. CASE Copy
  <2> DEFINE both   == Invalidated({Command.from, Command.to})
             copied == [both EXCEPT ![Command.to] = both[Command.from]]
  <2>1. Command.do = "copy" /\ dev' = [dev EXCEPT ![Command.to] = copied[Command.from]] /\ NextCommand
        /\ UNCHANGED <<chainVars, historyVars>>
    BY <1>4 DEF Copy
  <2>2. Command.from \in Buffers /\ Command.to \in Buffers
    BY <1>2, <2>1 DEF IsCommand
  <2>3. DOMAIN both = Buffers /\ both[Command.from] = dev[Command.from]
    BY <2>2, InvalidatedType
  <2>4. copied[Command.from] = dev[Command.from]
    BY <2>2, <2>3
  <2> QED BY <1>1, <2>1, <2>4 DEF Effect
<1> QED BY <1>3, <1>4

\* A transfer takes effect at once, before the dispatches waiting in the chain,
\* and makes no difference to them.
LEMMA TransferLeads ==
  ASSUME TypeOK, PlaceTypes, DataTypes, Places, GroupSlots, Leads, Ordinary, cmd_chain \in BOOLEAN,
         Write \/ Copy, ~Fault
  PROVE  /\ groups = <<>> => dev' = Reference'[at' - 1]
         /\ groups # <<>> => \E T : Chained(T, groups', Reference'[at' - 1]) /\ T[Unsynced'][Reached'] = dev'
<1> DEFINE w == Command
<1>1. /\ Replaying /\ w.do \in {"write", "copy"} /\ NextCommand
      /\ UNCHANGED <<chainVars, historyVars>> /\ dev' = Effect(w, dev)
  BY TransferEffect
<1>2. /\ pc = "replay" /\ IsCommand(w) /\ Len(Op.commands) \in Nat /\ at \in 1 .. Len(Op.commands)
      /\ DOMAIN Op.commands = 1 .. Len(Op.commands)
  BY <1>1, AtCommand
<1>3. pc' = "replay" /\ at' = at + 1 /\ Op' = Op /\ groups' = groups /\ before' = before /\ w = Op.commands[at]
  BY <1>1, <1>2 DEF NextCommand, Op, Command, chainVars, historyVars
<1>4. Reference' = Reference /\ Reference[at] = Effect(w, Reference[at - 1]) /\ at' - 1 = at
  BY <1>2, <1>3, ListUnderWay DEF Busy, Reference
<1>5. Unsynced = 1 /\ Reached = 0 /\ Unsynced' = 1 /\ Reached' = 0
  BY <1>2, <1>3 DEF Unsynced, Reached
<1>6. /\ groups = <<>> => dev = Reference[at - 1]
      /\ groups # <<>> => \E T : Chained(T, groups, Reference[at - 1]) /\ T[1][0] = dev
  BY <1>2, <1>5 DEF Leads, Busy, Ordinary
<1> DEFINE m == Reference[at - 1]
<1> HIDE DEF w, m
<1>7. CASE groups = <<>>
  BY <1>1, <1>4, <1>6, <1>7 DEF m
<1>8. CASE groups # <<>>
  <2>1. PICK T : Chained(T, groups, m) /\ T[1][0] = dev
    BY <1>6, <1>8 DEF m
  <2>2. /\ \A i \in 1 .. Len(groups) : Trace(T[i], groups[i].slots) /\ DOMAIN T[i][0] = Buffers
        /\ \A i \in 1 .. Len(groups) - 1 : T[i + 1][0] = T[i][Len(groups[i].slots)]
        /\ T[Len(groups)][Len(groups[Len(groups)].slots)] = m
    BY <2>1 DEF Chained
  <2>3. groups \in Seq(Group) /\ Len(groups) \in Nat \ {0} /\ DOMAIN groups = 1 .. Len(groups)
    BY <1>8 DEF PlaceTypes
  <2>4. \A i \in 1 .. Len(groups) : groups[i].slots \in Seq(Slot) /\ Len(groups[i].slots) \in Nat
    <3> TAKE i \in 1 .. Len(groups)
    <3>1. groups[i] \in Group
      BY <2>3
    <3>2. groups[i].slots \in Seq(Slot)
      BY <3>1 DEF Group
    <3> QED BY <3>2
  <2>5. ~Overtaken(Op.commands)
    BY <1>2, <1>8 DEF Ordinary, Places
  <2>6. ASSUME NEW i \in 1 .. Len(groups), NEW j \in 1 .. Len(groups[i].slots)
        PROVE  /\ groups[i].slots[j] \in Slot /\ w.to \notin Bindings(groups[i].slots[j].cmd)
               /\ w.do = "copy" => w.from # groups[i].slots[j].cmd.to
    <3> DEFINE s == groups[i].slots[j]
    <3>1. s \in Slot /\ j \in DOMAIN groups[i].slots
      BY <2>4
    <3>2. PICK k \in 1 .. at - 1 : s.cmd = Op.commands[k]
      BY <2>3, <3>1 DEF GroupSlots
    <3>3. k \in DOMAIN Op.commands /\ at \in DOMAIN Op.commands /\ k < at
      BY <1>2
    <3>4. s.cmd.do = "dispatch"
      BY <3>1 DEF Slot, Runnable
    <3> QED BY <1>1, <1>3, <2>5, <3>1, <3>2, <3>3, <3>4 DEF Overtaken
  <2> DEFINE S == [i \in 1 .. Len(groups) |-> [j \in 0 .. Len(groups[i].slots) |-> Effect(w, T[i][j])]]
  <2>7. ASSUME NEW i \in 1 .. Len(groups), NEW j \in 0 .. Len(groups[i].slots)
        PROVE  S[i][j] = Effect(w, T[i][j]) /\ DOMAIN T[i][j] = Buffers
    BY <2>2, <2>4, TraceDomain
  <2>8. \A k : DOMAIN Effect(w, k) = DOMAIN k
    BY <1>1 DEF Effect
  <2> HIDE DEF S
  <2>9. ASSUME NEW i \in 1 .. Len(groups) PROVE Trace(S[i], groups[i].slots) /\ DOMAIN S[i][0] = Buffers
    <3>1. ASSUME NEW j \in 1 .. Len(groups[i].slots) PROVE S[i][j] = Does(groups[i].slots[j], S[i][j - 1])
      <4>1. j \in 0 .. Len(groups[i].slots) /\ j - 1 \in 0 .. Len(groups[i].slots)
        BY <2>4
      <4>2. S[i][j] = Effect(w, T[i][j]) /\ S[i][j - 1] = Effect(w, T[i][j - 1]) /\ DOMAIN T[i][j - 1] = Buffers
        BY <2>7, <4>1
      <4>3. T[i][j] = Does(groups[i].slots[j], T[i][j - 1])
        BY <2>2 DEF Trace
      <4>4. Does(groups[i].slots[j], Effect(w, T[i][j - 1])) = Effect(w, Does(groups[i].slots[j], T[i][j - 1]))
        <5> DEFINE s == groups[i].slots[j]
                   k == T[i][j - 1]
        <5>1. s \in Slot /\ w.to \notin Bindings(s.cmd) /\ (w.do = "copy" => w.from # s.cmd.to)
          BY <2>6
        <5>2. IsCommand(w) /\ w.do \in {"write", "copy"} /\ DOMAIN k = Buffers
          BY <1>1, <1>2, <4>2
        <5> HIDE DEF s, k
        <5>3. Does(s, Effect(w, k)) = Effect(w, Does(s, k))
          BY <5>1, <5>2, Commute
        <5> QED BY <5>3 DEF s, k
      <4> QED BY <4>2, <4>3, <4>4
    <3>2. 0 \in 0 .. Len(groups[i].slots)
      BY <2>4
    <3>3. DOMAIN S[i][0] = Buffers
      BY <2>7, <2>8, <3>2
    <3> QED BY <3>1, <3>3 DEF Trace
  <2>10. ASSUME NEW i \in 1 .. Len(groups) - 1 PROVE S[i + 1][0] = S[i][Len(groups[i].slots)]
    <3>1. i \in 1 .. Len(groups) /\ i + 1 \in 1 .. Len(groups)
      BY <2>3
    <3>2. 0 \in 0 .. Len(groups[i + 1].slots) /\ Len(groups[i].slots) \in 0 .. Len(groups[i].slots)
      BY <2>4, <3>1
    <3> QED BY <2>2, <2>7, <3>1, <3>2
  <2>11. S[Len(groups)][Len(groups[Len(groups)].slots)] = Effect(w, m)
    <3>1. Len(groups) \in 1 .. Len(groups)
      BY <2>3
    <3>2. Len(groups[Len(groups)].slots) \in 0 .. Len(groups[Len(groups)].slots)
      BY <2>4, <3>1
    <3> QED BY <2>2, <2>7, <3>1, <3>2
  <2>12. S[1][0] = dev'
    <3>1. 1 \in 1 .. Len(groups)
      BY <2>3
    <3>2. 0 \in 0 .. Len(groups[1].slots)
      BY <2>4, <3>1
    <3> QED BY <1>1, <2>1, <2>7, <3>1, <3>2
  <2>13. Chained(S, groups', Reference'[at' - 1])
    BY <1>3, <1>4, <2>9, <2>10, <2>11 DEF Chained, m
  <2> QED BY <1>5, <1>8, <2>12, <2>13
<1> QED BY <1>7, <1>8

\* A dispatch that is submitted at once takes effect in its place.
LEMMA RunLeads ==
  ASSUME TypeOK, PlaceTypes, DataTypes, Places, Dispatching, NEW c \in Runnable, c = Command, Leads, Ordinary,
         ~cmd_chain, dev' = dev, before' = before, Op' = Op
  PROVE  /\ \E t : Trace(t, Calls(c)) /\ t[0] = dev /\ t[Len(Calls(c))] = Reference'[at]
         /\ Calls(c) = <<>> => dev = Reference'[at]
<1>1. pc = "replay" /\ groups = <<>>
  BY DEF Dispatching, Replaying, Places
<1>2. at \in 1 .. Len(Op.commands) /\ Len(Op.commands) \in Nat
  BY AtCommand DEF Dispatching
<1>3. Reference' = Reference /\ Reference[at] = Effect(c, Reference[at - 1])
  BY <1>1, <1>2, ListUnderWay DEF Busy, Reference, Command
<1>4. dev = Reference[at - 1]
  BY <1>1 DEF Leads, Busy, Ordinary
<1>5. PICK b \in {0, 1} : CallsOf(Calls(c), c, b)
  BY CallsAreCalls
<1>6. PICK t : t[0] = dev /\ Trace(t, Calls(c)) /\ t[Len(Calls(c))] = Effect(c, dev)
  BY <1>5, DispatchTrace
<1>7. Calls(c) = <<>> => Len(Calls(c)) = 0
  OBVIOUS
<1> QED BY <1>3, <1>4, <1>6, <1>7

\* The calls left lead on from the one that was made.
LEMMA RunCallLeads ==
  ASSUME TypeOK, PlaceTypes, ContextTypes, Places, RunConfig, Leads, Ordinary, RunCall, ~Fault
  PROVE  /\ Len(run.calls) = 1 => dev' = Reference'[at]
         /\ Len(run.calls) # 1 =>
              \E t : Trace(t, run'.calls) /\ t[0] = dev' /\ t[Len(run'.calls)] = Reference'[at]
<1> DEFINE calls == run.calls
<1>1. /\ pc = "run" /\ dev' = Does(calls[1], dev) /\ UNCHANGED <<script, item, before>>
      /\ Len(calls) # 1 => run'.calls = Tail(calls)
  BY RunRan
<1>2. calls \in Seq(Slot) /\ Len(calls) \in Nat \ {0}
  BY <1>1, RunAt
<1>3. Reference' = Reference
  BY <1>1 DEF Reference, Op
<1>4. PICK t : Trace(t, calls) /\ t[0] = dev /\ t[Len(calls)] = Reference[at]
  BY <1>1 DEF Leads, Busy, Ordinary
<1>5. t[1] = dev'
  <2>1. 1 \in 1 .. Len(calls) /\ 1 - 1 = 0
    BY <1>2
  <2> QED BY <1>1, <1>4, <2>1 DEF Trace
<1>6. CASE Len(calls) = 1
  BY <1>3, <1>4, <1>5, <1>6
<1>7. CASE Len(calls) # 1
  <2> DEFINE r == Tail(calls)
             u == [j \in 0 .. Len(calls) - 1 |-> t[j + 1]]
  <2>0. Len(calls) \in Nat \ {0, 1}
    BY <1>2, <1>7
  <2>1. Len(r) = Len(calls) - 1 /\ \A j \in 1 .. Len(calls) - 1 : r[j] = calls[j + 1]
    BY <1>2, <2>0, TailCalls
  <2> HIDE DEF r, calls
  <2>2. u[0] = dev' /\ u[Len(calls) - 1] = Reference'[at]
    BY <1>3, <1>4, <1>5, <2>0
  <2>3. ASSUME NEW j \in 1 .. Len(r) PROVE u[j] = Does(r[j], u[j - 1])
    <3>1. j + 1 \in 1 .. Len(calls) /\ (j + 1) - 1 = j /\ r[j] = calls[j + 1]
      BY <2>0, <2>1
    <3>2. u[j] = t[j + 1] /\ u[j - 1] = t[j]
      BY <2>0, <2>1
    <3>3. t[j + 1] = Does(calls[j + 1], t[j])
      BY <1>4, <3>1 DEF Trace
    <3> QED BY <3>1, <3>2, <3>3
  <2> HIDE DEF u
  <2>4. Trace(u, r) /\ u[0] = dev' /\ u[Len(r)] = Reference'[at]
    BY <2>1, <2>2, <2>3 DEF Trace
  <2> QED BY <1>1, <1>7, <2>4 DEF r, calls
<1> QED BY <1>6, <1>7

\* What a flush under way leads to.
LEMMA FlushAt ==
  ASSUME TypeOK, PlaceTypes, Places, Leads, Ordinary, pc \in {"flush", "chain"}
  PROVE  /\ flushing.group \in 1 .. Len(groups) /\ groups # <<>> /\ Unsynced = flushing.group
         /\ at - 1 = Len(Op.commands) /\ Op.kind = "execute"
         /\ \E T : Chained(T, groups, Reference[at - 1]) /\ T[flushing.group][Reached] = dev
<1>1. /\ flushing.group \in 1 .. Len(groups) /\ at = Len(Op.commands) + 1 /\ Op.kind = "execute"
      /\ groups \in Seq(Group)
  BY DEF Places, PlaceTypes, Busy
<1>2. groups # <<>>
  BY <1>1
<1>3. Unsynced = flushing.group
  BY DEF Unsynced
<1>4. Len(Op.commands) \in Nat
  BY <1>1, OpType
<1>5. \E T : Chained(T, groups, Reference[at - 1]) /\ T[Unsynced][Reached] = dev
  BY <1>2 DEF Leads, Busy, Ordinary
<1> QED BY <1>1, <1>2, <1>3, <1>4, <1>5

\* The end of the operation, or of all of them.
LEMMA NotBusy ==
  ASSUME ~Busy', ~Executed' \/ status' = "error"
  PROVE  Leads' /\ ChainedOrder'
BY DEF Leads, ChainedOrder

\* The list ended as it should.
LEMMA EndedWell ==
  ASSUME pc' = "ended", Op' = Op, dev' = dev, before' = before, cmd_chain' = cmd_chain,
         Ordinary => dev = Reference[Len(Op.commands)]
  PROVE  Leads' /\ ChainedOrder'
<1>1. Leads'
  BY DEF Leads, Busy
<1>2. Ordinary' = Ordinary
  BY DEF Ordinary
<1> QED BY <1>1 DEF ChainedOrder, Ordinary, Reference, InOrder

\* The list goes on.
LEMMA GoesOn ==
  ASSUME pc' # "ended", Op' = Op, cmd_chain' = cmd_chain,
         Ordinary /\ Busy' =>
           /\ pc' = "run" =>
                \E t : Trace(t, run'.calls) /\ t[0] = dev' /\ t[Len(run'.calls)] = Reference'[at']
           /\ pc' # "run" /\ groups' = <<>> => dev' = Reference'[at' - 1]
           /\ groups' # <<>> =>
                \E T : Chained(T, groups', Reference'[at' - 1]) /\ T[Unsynced'][Reached'] = dev'
  PROVE  Leads' /\ ChainedOrder'
<1>1. ChainedOrder'
  BY DEF ChainedOrder, Executed
<1>2. Leads'
  BY DEF Leads, Ordinary
<1> QED BY <1>1, <1>2

\* Every step leads on to the memory there should be.
LEMMA LeadsStep ==
  ASSUME ReconfigureRuns > 0, IInv, OrderInv, [Next]_vars
  PROVE  Leads' /\ ChainedOrder'
<1>1. /\ TypeOK /\ Places /\ PlaceTypes /\ ContextTypes /\ DataTypes /\ cmd_chain \in BOOLEAN
      /\ GroupSlots /\ FreshGroups /\ ConfigKept /\ RunConfig /\ Leads /\ ChainedOrder
  BY TypesSplit DEF IInv, OrderInv, SlotsInv
<1>2. PlaceTypes' /\ Places' /\ cmd_chain' = cmd_chain
  <2>1. IInv'
    BY NextIInv
  <2>2. (IInv => PlaceTypes /\ Places)'
    BY InvTypes, PTL
  <2> QED BY <2>1, <2>2 DEF Next, vars
<1>3. Abort => Leads' /\ ChainedOrder'
  BY NotBusy DEF Abort, Busy
<1>4. script' = script /\ item' = item => Op' = Op
  BY DEF Op
<1>5. pc \in {"start", "ended", "run"} \/ ~cmd_chain => groups = <<>>
  BY <1>1 DEF Places
<1>6. CASE QueueExecute
  <2>1. /\ pc = "start" /\ Op.kind = "execute" /\ UNCHANGED <<script, item, groups>>
        /\ UNCHANGED deviceVars /\ before' = dev
        /\ (pc' = "replay" /\ at' = 1) \/ (pc' = "ended" /\ status' = "error")
    BY <1>6 DEF QueueExecute, Starting, chainVars
  <2>2. CASE pc' = "ended" /\ status' = "error"
    BY <2>2, NotBusy DEF Busy
  <2>3. CASE pc' = "replay" /\ at' = 1
    <3>1. Op' = Op /\ dev' = dev /\ groups' = <<>>
      BY <1>4, <1>5, <2>1 DEF deviceVars
    <3>2. Len(Op.commands) \in Nat
      BY <1>1, <2>1, OpType
    <3>3. Memories(Op.commands, dev)[0] = dev
      BY <3>2, MemoriesSteps
    <3>4. Reference'[at' - 1] = dev'
      BY <2>1, <2>3, <3>1, <3>3 DEF Reference
    <3> QED BY <1>2, <2>3, <3>1, <3>4, GoesOn
  <2> QED BY <2>1, <2>2, <2>3
<1>7. CASE QueueCopy \/ QueueBarrier \/ QueueDealloca
  <2>1. pc' = "ended" /\ Op.kind # "execute" /\ UNCHANGED <<script, item>>
    BY <1>7 DEF QueueCopy, QueueBarrier, QueueDealloca, Starting, Succeed
  <2>2. Op' = Op
    BY <1>4, <2>1
  <2> QED BY <2>1, <2>2, NotBusy DEF Busy, Executed
<1>8. CASE NextOperation
  <2>1. pc' \in {"done", "start"}
    BY <1>8 DEF NextOperation
  <2> QED BY <2>1, NotBusy DEF Busy, Executed
<1>9. CASE Barrier
  <2>1. CASE Abort
    BY <1>3, <2>1
  <2>2. CASE NextCommand /\ UNCHANGED <<chainVars, historyVars>>
    <3>1. Replaying /\ Command.do = "barrier" /\ dev' = dev
      BY <1>9 DEF Barrier, deviceVars
    <3>2. pc = "replay" /\ at \in 1 .. Len(Op.commands) /\ Len(Op.commands) \in Nat
      BY <1>1, <3>1, AtCommand
    <3>3. pc' = "replay" /\ at' = at + 1 /\ Op' = Op /\ groups' = groups /\ before' = before
      BY <1>4, <2>2, <3>2 DEF NextCommand, chainVars, historyVars
    <3>4. Reference[at] = Effect(Command, Reference[at - 1])
      BY <1>1, <3>2, ListUnderWay DEF Busy, Command
    <3>5. Reference' = Reference /\ at' - 1 = at /\ Reference[at] = Reference[at - 1]
      BY <3>1, <3>2, <3>3, <3>4 DEF Reference, Effect
    <3>6. Unsynced' = Unsynced /\ Reached' = Reached
      BY <3>2, <3>3 DEF Unsynced, Reached
    <3>7. Ordinary =>
            /\ groups = <<>> => dev = Reference[at - 1]
            /\ groups # <<>> => \E T : Chained(T, groups, Reference[at - 1]) /\ T[Unsynced][Reached] = dev
      BY <1>1, <3>2 DEF Leads, Busy, Ordinary
    <3> QED BY <1>2, <3>1, <3>3, <3>5, <3>6, <3>7, GoesOn
  <2> QED BY <1>9, <2>1, <2>2 DEF Barrier, Refuse
<1>10. CASE Write \/ Copy
  <2>1. CASE Fault
    BY <1>3, <2>1 DEF Fault
  <2>2. CASE ~Fault
    <3>1. Replaying /\ NextCommand /\ UNCHANGED <<chainVars, historyVars>>
      BY <1>1, <1>10, <2>2, TransferEffect
    <3>2. pc' = "replay" /\ Op' = Op /\ groups' = groups
      BY <1>4, <3>1 DEF Replaying, NextCommand, chainVars
    <3>3. Ordinary =>
            /\ groups = <<>> => dev' = Reference'[at' - 1]
            /\ groups # <<>> => \E T : Chained(T, groups', Reference'[at' - 1]) /\ T[Unsynced'][Reached'] = dev'
      BY <1>1, <1>10, <2>2, TransferLeads
    <3> QED BY <1>2, <3>2, <3>3, GoesOn
  <2> QED BY <2>1, <2>2
<1>11. CASE DispatchFails
  BY <1>3, <1>11 DEF DispatchFails, Fault, Refuse
<1>12. CASE DispatchFresh \/ DispatchCached \/ DispatchKept
  <2>1. Dispatching /\ Command \in Runnable
    BY <1>1, <1>12, DispatchCases
  <2>2. CASE Refuse
    BY <1>3, <2>2 DEF Refuse
  <2>3. ASSUME NEW x \in Contexts, Proceed(Command, x) PROVE Leads' /\ ChainedOrder'
    <3>1. pc = "replay" /\ at \in 1 .. Len(Op.commands)
      BY <1>1, <2>1, AtCommand DEF Dispatching
    <3>2. CASE Fault \/ Refuse
      BY <1>3, <3>2 DEF Fault, Refuse
    <3>3. CASE cmd_chain /\ Accumulate(Command, x)
      <4>1. pc' = "replay" /\ Op' = Op
        BY <1>4, <3>1, <3>3 DEF Accumulate, NextCommand
      <4>2. Ordinary => \E T : Chained(T, groups', Reference'[at' - 1]) /\ T[Unsynced'][Reached'] = dev'
        BY <1>1, <2>1, <3>3, AccumulateLeads
      <4>3. groups' # <<>>
        <5>1. \E n \in Nat \ {0} : Len(groups') = n
          BY <1>1, <2>1, <3>3, AccumulateGroups DEF PlaceTypes
        <5> QED BY <5>1
      <4> QED BY <1>2, <4>1, <4>2, <4>3, GoesOn
    <3>4. CASE ~cmd_chain /\ UNCHANGED <<chainVars, deviceVars, historyVars>>
      <4>1. groups' = <<>> /\ dev' = dev /\ before' = before
        BY <1>5, <3>4 DEF chainVars, deviceVars, historyVars
      <4>2. Op' = Op => (Ordinary =>
              /\ \E t : Trace(t, Calls(Command)) /\ t[0] = dev /\ t[Len(Calls(Command))] = Reference'[at]
              /\ Calls(Command) = <<>> => dev = Reference'[at])
        BY <1>1, <2>1, <3>4, <4>1, RunLeads
      <4>3. CASE Calls(Command) = <<>> /\ NextCommand
        <5>1. pc' = "replay" /\ Op' = Op /\ at' - 1 = at
          BY <1>4, <3>1, <4>3 DEF NextCommand
        <5> QED BY <1>2, <4>1, <4>2, <4>3, <5>1, GoesOn
      <4>4. CASE /\ pc' = "run" /\ run' = [context |-> x, calls |-> Calls(Command)]
                 /\ UNCHANGED <<script, item, at, status>>
        <5>1. run'.calls = Calls(Command) /\ Op' = Op
          BY <1>4, <4>4
        <5> QED BY <1>2, <4>1, <4>2, <4>4, <5>1, GoesOn
      <4> QED BY <2>3, <3>4, <4>3, <4>4 DEF Proceed
    <3> QED BY <2>3, <3>2, <3>3, <3>4 DEF Proceed
  <2> QED BY <1>1, <1>12, <2>2, <2>3, DispatchCases
<1>13. CASE RunCall
  <2>1. CASE Fault
    BY <1>3, <2>1 DEF Fault
  <2>2. CASE ~Fault
    <3>1. /\ pc = "run" /\ UNCHANGED <<script, item, groups>>
          /\ IF Len(run.calls) = 1 THEN pc' = "replay" /\ at' = at + 1 ELSE pc' = "run" /\ at' = at
      BY <1>1, <1>13, <2>2, RunRan
    <3>2. Op' = Op /\ groups' = <<>> /\ pc' # "ended"
      BY <1>4, <1>5, <3>1
    <3>3. Ordinary =>
            /\ Len(run.calls) = 1 => dev' = Reference'[at]
            /\ Len(run.calls) # 1 =>
                 \E t : Trace(t, run'.calls) /\ t[0] = dev' /\ t[Len(run'.calls)] = Reference'[at]
      BY <1>1, <1>13, <2>2, RunCallLeads
    <3>4. (at + 1) - 1 = at
      BY <1>1 DEF PlaceTypes
    <3> QED BY <1>2, <3>1, <3>2, <3>3, <3>4, GoesOn
  <2> QED BY <2>1, <2>2
<1>14. CASE End
  <2>0. pc = "replay" /\ at > Len(Op.commands) /\ dev' = dev
    BY <1>14 DEF End, deviceVars
  <2>1. CASE Fault
    BY <1>3, <2>1 DEF Fault
  <2>2. CASE groups = <<>> /\ Succeed /\ UNCHANGED <<chainVars, historyVars>>
    <3>1. pc' = "ended" /\ Op' = Op /\ before' = before
      BY <1>4, <2>2 DEF Succeed, historyVars
    <3>2. Len(Op.commands) \in Nat /\ at \in 1 .. Len(Op.commands) + 1
      BY <1>1, <2>0, ListUnderWay DEF Busy
    <3>3. at - 1 = Len(Op.commands)
      BY <2>0, <3>2
    <3>4. Ordinary => dev = Reference[Len(Op.commands)]
      BY <1>1, <2>0, <2>2, <3>3 DEF Leads, Busy, Ordinary
    <3> QED BY <1>2, <2>0, <3>1, <3>4, EndedWell
  <2>3. CASE /\ groups # <<>> /\ pc' = "flush" /\ flushing' = FirstOf(1)
             /\ UNCHANGED <<script, item, at, status, run, groups, historyVars>>
    <3>1. Reached' = 0 /\ flushing'.group = 1
      BY <1>2, <2>3, ReachedFirst
    <3>2. Unsynced = 1 /\ Reached = 0 /\ Unsynced' = 1
      BY <2>0, <2>3, <3>1 DEF Unsynced, Reached
    <3>3. Op' = Op /\ before' = before
      BY <1>4, <2>3 DEF historyVars
    <3>4. Reference' = Reference
      BY <3>3 DEF Reference
    <3>5. Ordinary => \E T : Chained(T, groups, Reference[at - 1]) /\ T[Unsynced][Reached] = dev
      BY <1>1, <2>0, <2>3 DEF Leads, Busy, Ordinary
    <3> QED BY <1>2, <2>0, <2>3, <3>1, <3>2, <3>3, <3>4, <3>5, GoesOn
  <2> QED BY <1>14, <2>1, <2>2, <2>3 DEF End
<1>15. CASE FlushChunk
  <2>1. CASE Abort
    BY <1>3, <2>1
  <2>2. CASE pc' = "chain"
    <3>1. /\ pc = "flush" /\ Reached' = Reached /\ flushing'.group = flushing.group
          /\ UNCHANGED <<script, item, at, status, run, groups, before, dev>>
      BY <1>1, <1>15, <2>2, ReachedChunk
    <3>2. Op' = Op /\ Unsynced' = flushing.group
      BY <1>4, <2>2, <3>1 DEF Unsynced
    <3>3. Reference' = Reference
      BY <3>1, <3>2 DEF Reference
    <3>4. Ordinary => /\ groups # <<>>
                      /\ \E T : Chained(T, groups, Reference[at - 1]) /\ T[flushing.group][Reached] = dev
      BY <1>1, <3>1, FlushAt
    <3> QED BY <1>2, <2>2, <3>1, <3>2, <3>3, <3>4, GoesOn
  <2> QED BY <1>15, <2>1, <2>2 DEF FlushChunk, Refuse, Fault
<1>16. CASE ChainSlot
  <2>1. CASE Fault
    BY <1>3, <2>1 DEF Fault
  <2>2. CASE ~Fault
    <3> DEFINE f == flushing.group
               n == flushing.slot + 1
    <3>1. /\ pc = "chain" /\ n \in DOMAIN Flushing.slots
          /\ UNCHANGED <<script, item, at, groups, before>>
          /\ dev' = Does(Flushing.slots[n], dev)
      BY <1>1, <1>16, <2>2, ChainRan
    <3>2. pc' \in {"flush", "chain"} /\ Reached = flushing.slot /\ Reached' = n /\ flushing'.group = f
      BY <1>1, <1>16, <2>2, ReachedSlot
    <3>3. Op' = Op /\ Unsynced' = f
      BY <1>4, <3>1, <3>2 DEF Unsynced
    <3>4. Reference' = Reference
      BY <3>1, <3>3 DEF Reference
    <3>5. ASSUME Ordinary
          PROVE  groups # <<>> /\ \E T : Chained(T, groups, Reference[at - 1]) /\ T[f][n] = dev'
      <4>1. f \in 1 .. Len(groups) /\ groups # <<>>
        BY <1>1, <3>1, <3>5, FlushAt
      <4>2. PICK T : Chained(T, groups, Reference[at - 1]) /\ T[f][Reached] = dev
        BY <1>1, <3>1, <3>5, FlushAt
      <4>3. Trace(T[f], Flushing.slots)
        BY <4>1, <4>2 DEF Chained, Flushing
      <4>4. n \in 1 .. Len(Flushing.slots) /\ n - 1 = flushing.slot
        <5>1. Flushing \in Group /\ flushing.slot \in Nat
          BY <1>1, <3>1, ChainAt DEF PlaceTypes
        <5>2. Flushing.slots \in Seq(Slot)
          BY <5>1 DEF Group
        <5> QED BY <3>1, <5>1, <5>2
      <4> HIDE DEF f, n
      <4>5. T[f][n] = Does(Flushing.slots[n], T[f][n - 1])
        BY <4>3, <4>4 DEF Trace
      <4> QED BY <3>1, <3>2, <4>1, <4>2, <4>4, <4>5
    <3> HIDE DEF f, n
    <3> QED BY <1>2, <3>1, <3>2, <3>3, <3>4, <3>5, GoesOn
  <2> QED BY <2>1, <2>2
<1>17. CASE FlushSync
  <2>0. pc = "flush" /\ flushing.begin >= Len(Flushing.slots) /\ dev' = dev
    BY <1>17 DEF FlushSync
  <2>1. CASE Fault
    BY <1>3, <2>1 DEF Fault
  <2> DEFINE f == flushing.group
  <2>2. Reached = Len(Flushing.slots)
    <3>1. Len(Flushing.slots) \in Nat /\ flushing.begin \in Nat
      BY <1>1, <2>0, ChainAt DEF PlaceTypes
    <3> QED BY <2>0, <3>1 DEF Reached
  <2>3. Ordinary => /\ f \in 1 .. Len(groups) /\ groups # <<>> /\ at - 1 = Len(Op.commands)
                    /\ \E T : Chained(T, groups, Reference[at - 1]) /\ T[f][Len(groups[f].slots)] = dev
    BY <1>1, <2>0, <2>2, FlushAt DEF Flushing
  <2>4. CASE f = Len(groups) /\ Succeed /\ UNCHANGED historyVars
    <3>1. pc' = "ended" /\ Op' = Op /\ before' = before
      BY <1>4, <2>4 DEF Succeed, historyVars
    <3>2. ASSUME Ordinary PROVE dev = Reference[Len(Op.commands)]
      BY <2>3, <2>4, <3>2 DEF Chained
    <3> QED BY <1>2, <2>0, <3>1, <3>2, EndedWell
  <2>5. CASE f # Len(groups) /\ flushing' = FirstOf(f + 1) /\ UNCHANGED <<placeVars, groups>> /\ UNCHANGED historyVars
    <3>1. pc' = "flush" /\ groups' = groups /\ at' = at /\ Op' = Op /\ before' = before
      BY <1>4, <2>0, <2>5 DEF placeVars, historyVars
    <3>2. f + 1 \in Nat \ {0}
      BY <1>1 DEF PlaceTypes
    <3>3. Reached' = 0 /\ flushing'.group = f + 1
      BY <1>2, <2>5, <3>1, <3>2, ReachedFirst
    <3>4. Unsynced' = f + 1 /\ Reference' = Reference
      BY <3>1, <3>3 DEF Unsynced, Reference
    <3>5. ASSUME Ordinary
          PROVE  groups # <<>> /\ \E T : Chained(T, groups, Reference[at - 1]) /\ T[f + 1][0] = dev
      <4>1. PICK T : Chained(T, groups, Reference[at - 1]) /\ T[f][Len(groups[f].slots)] = dev
        BY <2>3, <3>5
      <4>2. f \in 1 .. Len(groups) - 1
        <5>1. groups \in Seq(Group)
          BY <1>1 DEF PlaceTypes
        <5>2. Len(groups) \in Nat
          BY <5>1
        <5> QED BY <2>3, <2>5, <3>5, <5>2
      <4>3. T[f + 1][0] = dev
        BY <4>1, <4>2 DEF Chained
      <4> QED BY <2>3, <3>5, <4>1, <4>3
    <3> HIDE DEF f
    <3> QED BY <1>2, <2>0, <3>1, <3>3, <3>4, <3>5, GoesOn
  <2> QED BY <1>17, <2>1, <2>4, <2>5 DEF FlushSync
<1>18. CASE UNCHANGED vars
  <2>1. UNCHANGED <<cmd_chain, script, item, pc, at, status, run, groups, flushing, dev, before>>
    BY <1>18 DEF vars, placeVars, chainVars, deviceVars, historyVars
  <2>2. Op' = Op /\ Reached' = Reached /\ Unsynced' = Unsynced
    BY <2>1 DEF Op, Reached, Unsynced, Flushing
  <2>3. Reference' = Reference
    BY <2>1, <2>2 DEF Reference
  <2>4. Leads'
    BY <1>1, <2>1, <2>2, <2>3 DEF Leads, Busy
  <2>5. ChainedOrder'
    BY <1>1, <2>1, <2>2 DEF ChainedOrder, Executed
  <2> QED BY <2>4, <2>5
<1> QED BY <1>6, <1>7, <1>8, <1>9, <1>10, <1>11, <1>12, <1>13, <1>14, <1>15, <1>16, <1>17, <1>18 DEF Next

-----------------------------------------------------------------------------
(***************************************************************************)
(* The theorems                                                            *)
(***************************************************************************)

LEMMA InitOrder == Init => OrderInv
<1> SUFFICES ASSUME Init PROVE OrderInv
  OBVIOUS
<1>1. pc = "start" /\ groups = <<>>
  BY DEF Init
<1> QED BY <1>1 DEF OrderInv, SlotsInv, GroupSlots, FreshGroups, ConfigKept, RunConfig, Leads, Busy,
                    ChainedOrder, Executed

\* Provided that reconfigurations are submitted at all (n_reconfigure_runs may
\* be set to 0 to measure the kernels alone), the slots of every chain find the
\* configuration they are meant for, and what is still to run leads from the
\* memory there is to the memory the list should leave.
THEOREM OrderInductive ==
  ASSUME ReconfigureRuns > 0
  PROVE  Spec => []OrderInv
<1>1. IInv /\ OrderInv /\ [Next]_vars => OrderInv'
  <2> SUFFICES ASSUME IInv, OrderInv, [Next]_vars PROVE OrderInv'
    OBVIOUS
  <2>1. SlotsInv'
    BY SlotsStep DEF OrderInv
  <2>2. Leads' /\ ChainedOrder'
    BY LeadsStep
  <2> QED BY <2>1, <2>2 DEF OrderInv
<1> QED BY <1>1, InitOrder, CommandsInductive, PTL DEF Spec

\* A command list that the queue replays without an error leaves device memory
\* as its commands do one after the other; in chain mode, if no write or copy
\* of the list depends on an earlier dispatch.  Repeated runs, groups, chunks,
\* shared contexts and errors in earlier operations make no difference.
THEOREM ListsActInOrder ==
  ASSUME ReconfigureRuns > 0
  PROVE  Spec => []ChainedOrder
<1>1. OrderInv => ChainedOrder
  BY DEF OrderInv
<1> QED BY <1>1, OrderInductive, PTL
=============================================================================
