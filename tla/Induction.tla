------------------------------ MODULE Induction ------------------------------
(***************************************************************************)
(* Induction over the natural numbers without an operator parameter: what  *)
(* is proved by induction is given as a set.  With it, what a function     *)
(* that is defined by recursion over 0 .. N returns can be proved.         *)
(***************************************************************************)
EXTENDS Integers, WellFoundedInduction, TLAPS

\* Every set of natural numbers that is not empty has a least element
THEOREM LeastElement ==
  ASSUME NEW S \in SUBSET Nat, S # {}
  PROVE  \E m \in S : \A n \in S : m <= n
<1> DEFINE R == {xy \in Nat \X Nat : xy[1] < xy[2]}
<1>1. IsWellFoundedOn(R, Nat)
  BY NatLessThanWellFounded, Zenon DEF OpToRel
<1>2. \A x, y \in Nat : <<x, y>> \in R <=> x < y
  OBVIOUS
<1> HIDE DEF R
<1>3. PICK m \in S : \A n \in S : ~ (<<n, m>> \in R)
  BY <1>1, WFMin
<1>4. \A n \in S : ~ (n < m)
  BY <1>2, <1>3
<1> QED
  BY <1>4

\* A set that has 0, and with every number the next, has all of them
THEOREM SetInduction ==
  ASSUME NEW S, 0 \in S, \A n \in Nat : n \in S => n + 1 \in S
  PROVE  Nat \subseteq S
<1> DEFINE T == Nat \ S
<1>1. SUFFICES ASSUME T # {} PROVE FALSE
  OBVIOUS
<1>2. T \in SUBSET Nat
  OBVIOUS
<1>3. PICK m \in T : \A n \in T : m <= n
  BY <1>1, <1>2, LeastElement
<1>4. m # 0 /\ m \in Nat
  OBVIOUS
<1>5. m - 1 \in Nat /\ m - 1 \notin T
  BY <1>3, <1>4
<1>6. m \in S
  BY <1>4, <1>5
<1> QED
  BY <1>6

\* The same up to a bound
THEOREM BoundedInduction ==
  ASSUME NEW N \in Nat, NEW S, 0 \in S, \A n \in 1 .. N : n - 1 \in S => n \in S
  PROVE  0 .. N \subseteq S
<1> DEFINE T == {n \in Nat : n <= N => n \in S}
<1>1. 0 \in T
  OBVIOUS
<1>2. ASSUME NEW n \in Nat, n \in T PROVE n + 1 \in T
  <2>1. CASE n + 1 <= N
    <3>1. n + 1 \in 1 .. N /\ (n + 1) - 1 = n /\ n \in S
      BY <1>2, <2>1
    <3> QED
      BY <3>1
  <2>2. CASE ~ (n + 1 <= N)
    BY <2>2
  <2> QED
    BY <2>1, <2>2
<1> HIDE DEF T
<1>3. Nat \subseteq T
  BY <1>1, <1>2, SetInduction
<1> QED
  BY <1>3 DEF T

\* the functions on 0 .. N that begin with a and go from f[n - 1] to h[n, f[n - 1]]
Solutions(N, S, a, h) ==
  {f \in [0 .. N -> S] : f[0] = a /\ \A n \in 1 .. N : f[n] = h[<<n, f[n - 1]>>]}

\* A recursion over 0 .. N whose steps stay in a set S has a solution, with values in S
THEOREM RecursionHasSolution ==
  ASSUME NEW N \in Nat, NEW S, NEW a \in S, NEW h \in [(1 .. N) \X S -> S]
  PROVE  Solutions(N, S, a, h) # {}
<1> DEFINE Solves(f, k) == f[0] = a /\ \A n \in 1 .. k : f[n] = h[<<n, f[n - 1]>>]
           K == {k \in 0 .. N : \E f \in [0 .. N -> S] : Solves(f, k)}
<1>0. \A n \in 1 .. N : \A s \in S : h[<<n, s>>] \in S
  OBVIOUS
<1>1. 0 \in K
  <2>1. [n \in 0 .. N |-> a] \in [0 .. N -> S] /\ Solves([n \in 0 .. N |-> a], 0)
    OBVIOUS
  <2>2. \E f \in [0 .. N -> S] : Solves(f, 0)
    BY <2>1, Zenon
  <2> HIDE DEF Solves
  <2> QED
    BY <2>2
<1>2. ASSUME NEW k \in 1 .. N, k - 1 \in K PROVE k \in K
  <2>1. PICK f \in [0 .. N -> S] : Solves(f, k - 1)
    BY <1>2
  <2> DEFINE g == [f EXCEPT ![k] = h[<<k, f[k - 1]>>]]
  <2>2. f[k - 1] \in S /\ h[<<k, f[k - 1]>>] \in S
    BY <1>0
  <2>3. g \in [0 .. N -> S]
    BY <2>2
  <2>4. g[0] = a /\ \A n \in 0 .. k - 1 : g[n] = f[n]
    BY <2>1
  <2>5. g[k] = h[<<k, g[k - 1]>>]
    BY <2>4
  <2>6. ASSUME NEW n \in 1 .. k PROVE g[n] = h[<<n, g[n - 1]>>]
    <3>1. CASE n = k
      BY <2>5, <3>1
    <3>2. CASE n # k
      <4>1. n \in 1 .. k - 1 /\ n - 1 \in 0 .. k - 1 /\ n \in 0 .. k - 1
        BY <3>2
      <4>2. f[n] = h[<<n, f[n - 1]>>]
        BY <2>1, <4>1
      <4> HIDE DEF g
      <4> QED
        BY <2>4, <4>1, <4>2
    <3> QED
      BY <3>1, <3>2
  <2> QED
    <3>1. Solves(g, k)
      BY <2>4, <2>6
    <3> HIDE DEF g, Solves
    <3>2. \E e \in [0 .. N -> S] : Solves(e, k)
      BY <2>3, <3>1
    <3> QED
      BY <3>2
<1> HIDE DEF K
<1>3. 0 .. N \subseteq K
  BY <1>1, <1>2, BoundedInduction
<1>4. N \in K
  BY <1>3
<1> HIDE DEF Solves
<1>5. \E f \in [0 .. N -> S] : Solves(f, N)
  BY <1>4 DEF K
<1> QED
  BY <1>5 DEF Solves, Solutions

\* Every solution of such a recursion has its values in S
THEOREM SolutionInSet ==
  ASSUME NEW N \in Nat, NEW S, NEW f, f[0] \in S,
         \A n \in 1 .. N : f[n - 1] \in S => f[n] \in S
  PROVE  \A n \in 0 .. N : f[n] \in S
<1> DEFINE K == {n \in 0 .. N : f[n] \in S}
<1>1. 0 \in K /\ \A n \in 1 .. N : n - 1 \in K => n \in K
  OBVIOUS
<1> HIDE DEF K
<1>2. 0 .. N \subseteq K
  BY <1>1, BoundedInduction
<1> QED
  BY <1>2 DEF K

-----------------------------------------------------------------------------
(* Sums that are taken by recursion.                                       *)

\* f[n] is a and the first n of the numbers v
SumsUp(f, N, a, v) == f = [n \in 0 .. N |-> IF n = 0 THEN a ELSE f[n - 1] + v[n]]

\* There is such an f
THEOREM SumExists ==
  ASSUME NEW N \in Nat, NEW a \in Nat, NEW v \in [1 .. N -> Nat]
  PROVE  \E f : SumsUp(f, N, a, v)
<1> DEFINE h == [x \in (1 .. N) \X Nat |-> x[2] + v[x[1]]]
           step(g, n) == IF n = 0 THEN a ELSE g[n - 1] + v[n]
<1>1. \A n \in 1 .. N : \A s \in Nat : h[<<n, s>>] = s + v[n] /\ v[n] \in Nat
  OBVIOUS
<1>2. h \in [(1 .. N) \X Nat -> Nat]
  OBVIOUS
<1> HIDE DEF h
<1>3. PICK g \in [0 .. N -> Nat] : g[0] = a /\ \A n \in 1 .. N : g[n] = h[<<n, g[n - 1]>>]
  <2>1. Solutions(N, Nat, a, h) # {}
    BY <1>2, RecursionHasSolution
  <2> QED
    BY <2>1 DEF Solutions
<1>4. ASSUME NEW n \in 0 .. N PROVE g[n] = step(g, n)
  <2>1. CASE n = 0
    BY <1>3, <2>1
  <2>2. CASE n # 0
    <3>1. n \in 1 .. N /\ n - 1 \in 0 .. N
      BY <2>2
    <3>2. g[n] = h[<<n, g[n - 1]>>] /\ g[n - 1] \in Nat
      BY <1>3, <3>1
    <3> QED
      BY <1>1, <2>2, <3>1, <3>2
  <2> QED
    BY <2>1, <2>2
<1>5. g = [n \in 0 .. N |-> step(g, n)]
  <2> HIDE DEF step
  <2> QED
    BY <1>4
<1> QED
  BY <1>5 DEF SumsUp

\* from one number to the next f grows by that number
Grows(f, N, v) == \A n \in 1 .. N : f[n] = f[n - 1] + v[n]

\* as a sum does
LEMMA SumStep ==
  ASSUME NEW N \in Nat, NEW a, NEW v, NEW f, SumsUp(f, N, a, v)
  PROVE  Grows(f, N, v)
<1> SUFFICES ASSUME NEW n \in 1 .. N PROVE f[n] = f[n - 1] + v[n]
  BY DEF Grows
<1> DEFINE step(k) == IF k = 0 THEN a ELSE f[k - 1] + v[k]
<1>1. f = [k \in 0 .. N |-> step(k)]
  BY DEF SumsUp
<1>2. n \in 0 .. N /\ n # 0
  OBVIOUS
<1>3. f[n] = step(n)
  <2> HIDE DEF step
  <2> QED
    BY <1>1, <1>2
<1> QED
  BY <1>2, <1>3

\* and it never goes down
THEOREM SumFacts ==
  ASSUME NEW N \in Nat, NEW a \in Nat, NEW v \in [1 .. N -> Nat], NEW f, SumsUp(f, N, a, v)
  PROVE  /\ f \in [0 .. N -> Nat]
         /\ f[0] = a
         /\ \A m, n \in 0 .. N : m <= n => f[m] <= f[n]
<1>1. DOMAIN f = 0 .. N /\ f[0] = a /\ \A n \in 1 .. N : f[n] = f[n - 1] + v[n]
  <2>1. DOMAIN f = 0 .. N /\ f[0] = a
    BY DEF SumsUp
  <2>2. Grows(f, N, v)
    BY SumStep
  <2> QED
    BY <2>1, <2>2 DEF Grows
<1>2. \A n \in 0 .. N : f[n] \in Nat
  <2>1. ASSUME NEW n \in 1 .. N, f[n - 1] \in Nat PROVE f[n] \in Nat
    <3>1. f[n] = f[n - 1] + v[n] /\ v[n] \in Nat
      BY <1>1
    <3> QED
      BY <2>1, <3>1
  <2> QED
    BY <1>1, <2>1, SolutionInSet
<1>3. f \in [0 .. N -> Nat]
  <2>1. f = [n \in 0 .. N |-> f[n]]
    BY <1>1 DEF SumsUp
  <2> QED
    BY <1>2, <2>1
<1>4. ASSUME NEW m \in 0 .. N PROVE \A n \in 0 .. N : m <= n => f[m] <= f[n]
  <2> DEFINE K == {n \in 0 .. N : m <= n => f[m] <= f[n]}
  <2>1. 0 \in K
    BY <1>2
  <2>2. ASSUME NEW n \in 1 .. N, n - 1 \in K PROVE n \in K
    <3>1. f[n] = f[n - 1] + v[n] /\ v[n] \in Nat /\ f[n - 1] \in Nat /\ f[m] \in Nat
      <4>1. n - 1 \in 0 .. N
        OBVIOUS
      <4> QED
        BY <1>1, <1>2, <4>1
    <3>2. CASE m = n
      BY <1>2, <3>2
    <3>3. CASE m # n
      <4>1. m <= n => m <= n - 1
        BY <3>3
      <4> QED
        BY <2>2, <3>1, <4>1
    <3> QED
      BY <3>2, <3>3
  <2> HIDE DEF K
  <2>3. 0 .. N \subseteq K
    BY <2>1, <2>2, BoundedInduction
  <2> QED
    BY <2>3 DEF K
<1> QED
  BY <1>1, <1>3, <1>4

-----------------------------------------------------------------------------
(* Sums that are taken over a set of indices from its largest down, which  *)
(* is how the folds of the community modules take them.                    *)

Largest(S) == CHOOSE x \in S : \A y \in S : x >= y

\* g[S] is the sum of the numbers v at the indices in S
FoldsUp(g, m, v) ==
  g = [S \in SUBSET (1 .. m) |->
        IF S = {} THEN 0 ELSE g[S \ {Largest(S)}] + v[Largest(S)]]

\* A set of indices has a largest one
LEMMA LargestOf ==
  ASSUME NEW m \in Nat, NEW S \in SUBSET (1 .. m), S # {}
  PROVE  Largest(S) \in S /\ \A y \in S : Largest(S) >= y
<1> DEFINE T == {m - x : x \in S}
<1>1. T \in SUBSET Nat /\ T # {}
  <2>1. \A x \in S : m - x \in Nat
    OBVIOUS
  <2> QED
    BY <2>1
<1>2. PICK t \in T : \A u \in T : t <= u
  <2> HIDE DEF T
  <2> QED
    BY <1>1, LeastElement
<1>3. PICK x \in S : t = m - x
  BY <1>2
<1>4. \A y \in S : x >= y
  <2> SUFFICES ASSUME NEW y \in S PROVE x >= y
    OBVIOUS
  <2>1. m - y \in T
    OBVIOUS
  <2>2. m - x <= m - y
    BY <1>2, <1>3, <2>1
  <2> QED
    BY <2>2
<1>5. \E z \in S : \A y \in S : z >= y
  BY <1>4
<1> QED
  BY <1>5 DEF Largest

\* There is such a g
THEOREM FoldExists ==
  ASSUME NEW m \in Nat, NEW v \in [1 .. m -> Int]
  PROVE  \E g : FoldsUp(g, m, v)
<1> DEFINE body(g, S) == IF S = {} THEN 0 ELSE g[S \ {Largest(S)}] + v[Largest(S)]
           solves(g, k) == \A S \in SUBSET (1 .. k) : g[S] = body(g, S)
           K == {k \in 0 .. m : \E g : solves(g, k)}
<1>1. 0 \in K
  <2> DEFINE g == [S \in {{}} |-> 0]
  <2>1. \A S \in SUBSET (1 .. 0) : S = {}
    OBVIOUS
  <2>2. solves(g, 0)
    BY <2>1
  <2> HIDE DEF g, solves
  <2> QED
    BY <2>2
<1>2. ASSUME NEW k \in 1 .. m, k - 1 \in K PROVE k \in K
  <2>1. PICK f : solves(f, k - 1)
    BY <1>2
  <2> DEFINE g == [S \in SUBSET (1 .. m) |-> IF k \in S THEN f[S \ {k}] + v[k] ELSE f[S]]
  <2>2. \A S \in SUBSET (1 .. k) : k \notin S => S \in SUBSET (1 .. k - 1)
    OBVIOUS
  <2>3. \A S \in SUBSET (1 .. k) : g[S] = IF k \in S THEN f[S \ {k}] + v[k] ELSE f[S]
    OBVIOUS
  <2> HIDE DEF g
  <2>4. ASSUME NEW S \in SUBSET (1 .. k) PROVE g[S] = body(g, S)
    <3>1. CASE k \in S
      <4>1. Largest(S) = k
        <5>1. Largest(S) \in S /\ \A y \in S : Largest(S) >= y
          <6>1. k \in Nat /\ S # {}
            BY <3>1
          <6> QED
            BY <6>1, LargestOf
        <5>2. Largest(S) >= k /\ Largest(S) \in 1 .. k
          BY <3>1, <5>1
        <5> QED
          BY <5>2
      <4>2. S \ {k} \in SUBSET (1 .. k) /\ k \notin S \ {k}
        OBVIOUS
      <4>3. g[S \ {k}] = f[S \ {k}]
        BY <2>3, <4>2
      <4> QED
        BY <2>3, <3>1, <4>1, <4>3
    <3>2. CASE k \notin S
      <4>1. f[S] = body(f, S) /\ g[S] = f[S]
        BY <2>1, <2>2, <2>3, <3>2
      <4>2. S \ {Largest(S)} \in SUBSET (1 .. k) /\ k \notin S \ {Largest(S)}
        BY <3>2
      <4>3. g[S \ {Largest(S)}] = f[S \ {Largest(S)}]
        BY <2>3, <4>2
      <4> QED
        BY <4>1, <4>3
    <3> QED
      BY <3>1, <3>2
  <2>5. solves(g, k)
    BY <2>4
  <2> HIDE DEF solves
  <2> QED
    BY <2>5
<1> HIDE DEF K
<1>3. 0 .. m \subseteq K
  BY <1>1, <1>2, BoundedInduction
<1>4. m \in K
  BY <1>3
<1>5. PICK f : solves(f, m)
  BY <1>4 DEF K
<1> DEFINE g == [S \in SUBSET (1 .. m) |-> f[S]]
<1>6. \A S \in SUBSET (1 .. m) : g[S] = f[S]
  OBVIOUS
<1> HIDE DEF g
<1>7. ASSUME NEW S \in SUBSET (1 .. m) PROVE f[S] = body(g, S)
  <2>1. S \ {Largest(S)} \in SUBSET (1 .. m)
    OBVIOUS
  <2>2. g[S \ {Largest(S)}] = f[S \ {Largest(S)}]
    BY <1>6, <2>1
  <2> QED
    BY <1>5, <2>2
<1>8. g = [S \in SUBSET (1 .. m) |-> body(g, S)]
  <2> HIDE DEF body
  <2>1. [S \in SUBSET (1 .. m) |-> f[S]] = [S \in SUBSET (1 .. m) |-> body(g, S)]
    BY <1>7
  <2> QED
    BY <2>1 DEF g
<1> QED
  BY <1>8 DEF FoldsUp

\* the sum of the first k numbers
First(g, k) == g[1 .. k]

\* and it adds the numbers up one by one
THEOREM FoldSteps ==
  ASSUME NEW m \in Nat, NEW v, NEW g, FoldsUp(g, m, v)
  PROVE  /\ First(g, 0) = 0
         /\ \A k \in 1 .. m : First(g, k) = First(g, k - 1) + v[k]
<1> DEFINE body(S) == IF S = {} THEN 0 ELSE g[S \ {Largest(S)}] + v[Largest(S)]
<1>1. ASSUME NEW S \in SUBSET (1 .. m) PROVE g[S] = body(S)
  <2>1. g = [T \in SUBSET (1 .. m) |-> body(T)]
    BY DEF FoldsUp
  <2> HIDE DEF body
  <2> QED
    BY <2>1
<1>2. g[1 .. 0] = 0
  <2>1. (1 .. 0) = {} /\ 1 .. 0 \in SUBSET (1 .. m)
    OBVIOUS
  <2> QED
    BY <1>1, <2>1
<1>3. ASSUME NEW k \in 1 .. m PROVE g[1 .. k] = g[1 .. k - 1] + v[k]
  <2> DEFINE S == 1 .. k
  <2>1. S \in SUBSET (1 .. m) /\ S # {} /\ k \in S
    OBVIOUS
  <2>2. Largest(S) \in S /\ \A y \in S : Largest(S) >= y
    <3> HIDE DEF S
    <3> QED
      BY <2>1, LargestOf
  <2>3. Largest(S) = k
    <3>1. Largest(S) >= k /\ Largest(S) \in 1 .. k
      BY <2>1, <2>2
    <3> QED
      BY <3>1
  <2>4. S \ {k} = 1 .. k - 1
    OBVIOUS
  <2> HIDE DEF S
  <2>5. g[S] = g[S \ {k}] + v[k]
    BY <1>1, <2>1, <2>3
  <2> QED
    BY <2>4, <2>5 DEF S
<1> QED
  BY <1>2, <1>3 DEF First
=============================================================================
