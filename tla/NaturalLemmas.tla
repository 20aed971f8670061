------------------------------ MODULE NaturalLemmas ------------------------------
(***************************************************************************)
(* Facts about natural numbers that several proofs use: the least-number   *)
(* principle and induction, both stated for sets.                          *)
(***************************************************************************)
EXTENDS Integers, WellFoundedInduction, TLAPS

\* A set of natural numbers that is not empty has a least element.
LEMMA LeastElement ==
  ASSUME NEW T, T \subseteq Nat, T # {}
  PROVE  \E x \in T : \A y \in T : x <= y
  <1> DEFINE R == OpToRel(<, Nat)
  <1>1. \E x \in T : \A y \in T : ~(<<y, x>> \in R)
    BY NatLessThanWellFounded, WFMin
  <1>2. \A x, y \in Nat : y < x => <<y, x>> \in R
    BY DEF OpToRel
  <1> HIDE DEF R
  <1>3. PICK x \in T : \A y \in T : ~(<<y, x>> \in R)
    BY <1>1
  <1>4. \A y \in T : ~(y < x)
    BY <1>2, <1>3
  <1>5. \A y \in T : x <= y
    BY <1>4
  <1> QED
    BY <1>5

\* A set that has 0, and with a number the next one up to n, has all of them.
LEMMA InductionUpTo ==
  ASSUME NEW n \in Nat, NEW S, 0 \in S, \A i \in 1 .. n : i - 1 \in S => i \in S
  PROVE  \A i \in 0 .. n : i \in S
  <1> DEFINE T == {i \in 0 .. n : i \notin S}
  <1> SUFFICES ASSUME T # {} PROVE FALSE
    OBVIOUS
  <1>1. T \subseteq Nat
    OBVIOUS
  <1>2. \E x \in T : \A y \in T : x <= y
    BY <1>1, LeastElement
  <1>3. PICK x \in T : \A y \in T : x <= y
    BY <1>2
  <1>4. x \in 1 .. n /\ x \notin S
    BY <1>3
  <1>5. x - 1 \notin T /\ x - 1 \in 0 .. n
    BY <1>1, <1>3, <1>4
  <1> QED
    BY <1>4, <1>5

\* The functions on 0 .. n given by their first value and by how each value follows
\* from the one before.
Recursion(n, S, a, g) ==
    {f \in [0 .. n -> S] : f[0] = a /\ \A i \in 1 .. n : f[i] = g[i][f[i - 1]]}

\* There is such a function.
LEMMA RecursionUpTo ==
  ASSUME NEW n \in Nat, NEW S, NEW a \in S, NEW g \in [1 .. n -> [S -> S]]
  PROVE  \E f : f \in Recursion(n, S, a, g)
  <1> DEFINE Exists(m) == \E f \in [0 .. m -> S] : f[0] = a /\ \A i \in 1 .. m : f[i] = g[i][f[i - 1]]
             T == {m \in Nat : Exists(m)}
  <1>1. 0 \in T
    <2> DEFINE f == [i \in 0 .. 0 |-> a]
    <2>1. f \in [0 .. 0 -> S] /\ f[0] = a /\ \A i \in 1 .. 0 : f[i] = g[i][f[i - 1]]
      OBVIOUS
    <2> QED
      BY <2>1
  <1>2. ASSUME NEW m \in 1 .. n, m - 1 \in T PROVE m \in T
    <2>1. PICK f \in [0 .. m - 1 -> S] : f[0] = a /\ \A i \in 1 .. m - 1 : f[i] = g[i][f[i - 1]]
      BY <1>2
    <2> DEFINE h == [i \in 0 .. m |-> IF i < m THEN f[i] ELSE g[m][f[m - 1]]]
    <2>2. g[m][f[m - 1]] \in S
      BY <2>1
    <2>3. h \in [0 .. m -> S] /\ h[0] = a
      BY <2>1, <2>2
    <2>4. ASSUME NEW i \in 1 .. m PROVE h[i] = g[i][h[i - 1]]
      BY <2>1
    <2> HIDE DEF h
    <2> QED
      BY <2>3, <2>4
  <1> HIDE DEF T
  <1>3. \A m \in 0 .. n : m \in T
    BY <1>1, <1>2, InductionUpTo
  <1> QED
    BY <1>3 DEF T, Recursion
=============================================================================
