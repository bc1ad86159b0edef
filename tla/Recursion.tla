------------------------------ MODULE Recursion ------------------------------
(***************************************************************************)
(* Induction and recursion over the natural numbers, stated with sets and  *)
(* functions where the library has operators: what a recursive function    *)
(* is needs a function that satisfies its equation.                        *)
(***************************************************************************)
EXTENDS Integers, WellFoundedInduction, TLAPS

\* A set of numbers that is not empty has a least element.
LEMMA LeastNumber ==
  ASSUME NEW T, T \subseteq Nat, T # {}
  PROVE  \E m \in T : \A k \in T : m <= k
<1> DEFINE R == {p \in Nat \X Nat : p[1] < p[2]}
<1>1. IsWellFoundedOn(R, Nat)
  <2>1. R = OpToRel(<, Nat)
    BY Zenon DEF OpToRel
  <2> QED
    BY <2>1, NatLessThanWellFounded, Zenon
<1> HIDE DEF R
<1>2. PICK m \in T : \A k \in T : <<k, m>> \notin R
  BY <1>1, WFMin
<1>3. \A k \in T : ~(k < m)
  BY <1>2 DEF R
<1> QED
  BY <1>3

\* Induction: a set with 0 and with the successor of each of its members has all.
LEMMA Induction ==
  ASSUME NEW T, 0 \in T, \A n \in Nat : n \in T => n + 1 \in T
  PROVE  Nat \subseteq T
<1> SUFFICES ASSUME Nat \ T # {} PROVE FALSE
  OBVIOUS
<1>1. PICK m \in Nat \ T : \A k \in Nat \ T : m <= k
  BY LeastNumber
<1>2. m # 0 /\ m - 1 \in Nat
  BY <1>1
<1>3. m - 1 \in T
  BY <1>1, <1>2
<1> QED
  BY <1>1, <1>2, <1>3

-----------------------------------------------------------------------------
\* g computes the recursion that starts with b and goes on with step up to n.
Computes(V, b, step, n, g) ==
  /\ g \in [0..n -> V]
  /\ g[0] = b
  /\ \A i \in 0..n - 1 : g[i + 1] = step[<<i, g[i]>>]

\* Two computations agree as far as both go.
LEMMA ComputesUnique ==
  ASSUME NEW V, NEW b, NEW step, NEW n \in Nat, NEW m \in Nat
  PROVE  \A g, h : Computes(V, b, step, n, g) /\ Computes(V, b, step, m, h)
                    => \A i \in Nat : i <= n /\ i <= m => g[i] = h[i]
<1> SUFFICES ASSUME NEW g, NEW h, Computes(V, b, step, n, g), Computes(V, b, step, m, h)
             PROVE  \A i \in Nat : i <= n /\ i <= m => g[i] = h[i]
  OBVIOUS
<1> DEFINE T == {i \in Nat : i <= n /\ i <= m => g[i] = h[i]}
<1>1. 0 \in T
  BY DEF Computes
<1>2. ASSUME NEW i \in Nat, i \in T PROVE i + 1 \in T
  <2> SUFFICES ASSUME i + 1 <= n, i + 1 <= m PROVE g[i + 1] = h[i + 1]
    OBVIOUS
  <2>1. g[i] = h[i] /\ i \in 0..n - 1 /\ i \in 0..m - 1
    BY <1>2
  <2> QED
    BY <2>1 DEF Computes
<1> HIDE DEF T
<1>3. Nat \subseteq T
  BY <1>1, <1>2, Induction
<1> QED
  BY <1>3 DEF T

\* There is a computation of any length.
LEMMA ComputesExists ==
  ASSUME NEW V, NEW b \in V, NEW step \in [Nat \X V -> V], NEW n \in Nat
  PROVE  \E g : Computes(V, b, step, n, g)
<1> DEFINE T == {k \in Nat : \E g : Computes(V, b, step, k, g)}
<1>1. 0 \in T
  <2>1. Computes(V, b, step, 0, [i \in 0..0 |-> b])
    BY DEF Computes
  <2> QED
    BY <2>1
<1>2. ASSUME NEW k \in Nat, k \in T PROVE k + 1 \in T
  <2>1. PICK g : Computes(V, b, step, k, g)
    BY <1>2
  <2> DEFINE h == [i \in 0..k + 1 |-> IF i <= k THEN g[i] ELSE step[<<k, g[k]>>]]
  <2>2. g[k] \in V /\ step[<<k, g[k]>>] \in V
    BY <2>1 DEF Computes
  <2>3. h \in [0..k + 1 -> V] /\ h[0] = b
    BY <2>1, <2>2 DEF Computes
  <2>4. ASSUME NEW i \in 0..k + 1 - 1 PROVE h[i + 1] = step[<<i, h[i]>>]
    <3>1. CASE i < k
      BY <2>1, <3>1 DEF Computes
    <3>2. CASE i = k
      BY <3>2
    <3> QED
      BY <3>1, <3>2
  <2> HIDE DEF h
  <2>5. Computes(V, b, step, k + 1, h)
    BY <2>3, <2>4 DEF Computes
  <2> QED
    BY <2>5
<1> HIDE DEF T
<1>3. Nat \subseteq T
  BY <1>1, <1>2, Induction
<1> QED
  BY <1>3 DEF T

\* f starts with b and goes on with step, for ever.
Solves(V, b, step, f) ==
  f \in [Nat -> V] /\ f[0] = b /\ \A n \in Nat : f[n + 1] = step[<<n, f[n]>>]

IsStep(V, step) == step \in [Nat \X V -> V]

\* A recursion over the natural numbers has a solution.
LEMMA RecursionHasASolution ==
  ASSUME NEW V, NEW b \in V, NEW step, IsStep(V, step)
  PROVE  \E f : Solves(V, b, step, f)
<1>0. step \in [Nat \X V -> V]
  BY DEF IsStep
<1> DEFINE g(n) == CHOOSE h : Computes(V, b, step, n, h)
           f == [n \in Nat |-> g(n)[n]]
<1>1. \A n \in Nat : Computes(V, b, step, n, g(n))
  BY <1>0, ComputesExists
<1> HIDE DEF g
<1>2. f \in [Nat -> V]
  BY <1>1 DEF Computes
<1>3. f[0] = b
  BY <1>1 DEF Computes
<1>4. ASSUME NEW n \in Nat PROVE f[n + 1] = step[<<n, f[n]>>]
  <2>1. Computes(V, b, step, n, g(n)) /\ Computes(V, b, step, n + 1, g(n + 1))
    BY <1>1
  <2>2. \A h, k : Computes(V, b, step, n, h) /\ Computes(V, b, step, n + 1, k) => h[n] = k[n]
    BY ComputesUnique
  <2>3. g(n + 1)[n + 1] = step[<<n, g(n + 1)[n]>>]
    BY <2>1 DEF Computes
  <2> QED
    BY <2>1, <2>2, <2>3
<1> HIDE DEF f
<1> QED
  BY <1>2, <1>3, <1>4 DEF Solves

\* And so has one that stops.
LEMMA RecursionUpTo ==
  ASSUME NEW V, NEW b \in V, NEW step, IsStep(V, step), NEW n \in Nat
  PROVE  \E g : Computes(V, b, step, n, g)
<1>1. step \in [Nat \X V -> V]
  BY DEF IsStep
<1> QED
  BY <1>1, ComputesExists
=============================================================================
