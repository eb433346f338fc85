---------------------------- MODULE InductionLemmas ----------------------------
(***************************************************************************)
(* Induction over the naturals stated with sets and functions, and not     *)
(* with an operator as a parameter, for the loops of the program: what a   *)
(* recursive function over 0 .. N computes stays in a set that every step  *)
(* of the loop stays in.                                                   *)
(***************************************************************************)
EXTENDS Integers, WellFoundedInduction, TLAPS

\* A set of naturals that is not empty has a least element.
LEMMA LeastNat ==
    ASSUME NEW S \in SUBSET Nat, S # {}
    PROVE  \E x \in S : \A y \in S : x <= y
<1>1. \E x \in S : \A y \in S : <<y, x>> \notin OpToRel(<, Nat)
  BY NatLessThanWellFounded, WFMin
<1>2. \A x, y \in Nat : <<y, x>> \notin OpToRel(<, Nat) => x <= y
  BY DEF OpToRel
<1> QED BY <1>1, <1>2

\* A set with 0 and with the successors of its elements up to N contains 0 .. N.
LEMMA SetInduction ==
    ASSUME NEW N \in Nat, NEW S, 0 \in S,
           \A n \in 0 .. N - 1 : n \in S => n + 1 \in S
    PROVE  0 .. N \subseteq S
<1> DEFINE T == {n \in 0 .. N : n \notin S}
<1> SUFFICES ASSUME T # {} PROVE FALSE
  OBVIOUS
<1>1. PICK x \in T : \A y \in T : x <= y
  <2>1. T \in SUBSET Nat
    OBVIOUS
  <2> HIDE DEF T
  <2> QED BY <2>1, LeastNat
<1>2. x \in Nat /\ x # 0 /\ x - 1 \in 0 .. N - 1
  OBVIOUS
<1>3. x - 1 \in S
  BY <1>1, <1>2
<1>4. (x - 1) + 1 \in S
  BY <1>2, <1>3
<1> QED BY <1>2, <1>4

\* There is a function on 0 .. N that has the value s at 0, and at any other argument the
\* value that g, a function of the argument, makes of the value before.
HasRecursion(N, S, s, g) ==
    \E f \in [0 .. N -> S] : f[0] = s /\ \A n \in 1 .. N : f[n] = g[n][f[n - 1]]

\* Recursion over 0 .. N defines something.
LEMMA RecursionExists ==
    ASSUME NEW N \in Nat, NEW S, NEW s \in S, NEW g \in [1 .. N -> [S -> S]]
    PROVE  HasRecursion(N, S, s, g)
<1> DEFINE Up(m, f) == f[0] = s /\ \A n \in 1 .. m : f[n] = g[n][f[n - 1]]
           T == {m \in 0 .. N : \E f \in [0 .. m -> S] : Up(m, f)}
<1>1. 0 \in T
  <2>1. [n \in 0 .. 0 |-> s] \in [0 .. 0 -> S] /\ Up(0, [n \in 0 .. 0 |-> s])
    OBVIOUS
  <2>2. 0 \in 0 .. N
    OBVIOUS
  <2>3. \E f \in [0 .. 0 -> S] : Up(0, f)
    BY <2>1
  <2> HIDE DEF Up
  <2> QED BY <2>2, <2>3
<1>2. ASSUME NEW m \in 0 .. N - 1, m \in T PROVE m + 1 \in T
  <2>1. PICK f \in [0 .. m -> S] : Up(m, f)
    BY <1>2
  <2> DEFINE h == [n \in 0 .. m + 1 |-> IF n = m + 1 THEN g[n][f[m]] ELSE f[n]]
  <2>2. m \in 0 .. m /\ m + 1 \in 1 .. N /\ f[m] \in S
    OBVIOUS
  <2>3. g[m + 1] \in [S -> S]
    BY <2>2
  <2>4. g[m + 1][f[m]] \in S
    BY <2>2, <2>3
  <2>5. h \in [0 .. m + 1 -> S]
    BY <2>4
  <2>6. h[0] = s
    BY <2>1
  <2>7. ASSUME NEW n \in 1 .. m + 1 PROVE h[n] = g[n][h[n - 1]]
    <3>1. CASE n = m + 1
      BY <3>1, <2>2
    <3>2. CASE n # m + 1
      <4>1. n \in 1 .. m /\ n - 1 \in 0 .. m /\ n - 1 # m + 1
        BY <3>2
      <4>2. h[n] = f[n] /\ h[n - 1] = f[n - 1]
        BY <4>1, <3>2
      <4> QED BY <4>1, <4>2, <2>1
    <3> QED BY <3>1, <3>2
  <2>8. Up(m + 1, h)
    BY <2>6, <2>7
  <2>9. m + 1 \in 0 .. N
    OBVIOUS
  <2> HIDE DEF h, Up
  <2> QED BY <2>5, <2>8, <2>9
<1> HIDE DEF T
<1>3. 0 .. N \subseteq T
  BY <1>1, <1>2, SetInduction
<1>4. N \in T
  BY <1>3
<1> QED BY <1>4 DEF T, HasRecursion

\* What a loop carries stays in S.
LEMMA LoopStays ==
    ASSUME NEW N \in Nat, NEW S, NEW f, f[0] \in S,
           \A n \in 1 .. N : f[n - 1] \in S => f[n] \in S
    PROVE  \A n \in 0 .. N : f[n] \in S
<1> DEFINE T == {n \in 0 .. N : f[n] \in S}
<1>1. 0 \in T
  OBVIOUS
<1>2. ASSUME NEW n \in 0 .. N - 1, n \in T PROVE n + 1 \in T
  <2>1. n + 1 \in 1 .. N /\ (n + 1) - 1 = n /\ n + 1 \in 0 .. N
    OBVIOUS
  <2>2. f[n] \in S
    BY <1>2
  <2>3. f[n + 1] \in S
    BY <2>1, <2>2
  <2> QED BY <2>1, <2>3
<1> HIDE DEF T
<1>3. 0 .. N \subseteq T
  BY <1>1, <1>2, SetInduction
<1> QED BY <1>3 DEF T
================================================================================
