----------------------------- MODULE LeastNumber -----------------------------
(* Every non-empty set of natural numbers has a least one, and every non-empty *)
(* set of numbers below a bound a greatest one.  Taking the least number that  *)
(* violates a claim replaces induction in the proofs about trees and queues.   *)
EXTENDS Integers, WellFoundedInduction, TLAPS

\* The order of the natural numbers is well-founded.
LEMMA NatOrder ==
    \E R : IsWellFoundedOn(R, Nat) /\ \A x, y \in Nat : y < x => <<y, x>> \in R
  <1>1. IsWellFoundedOn(OpToRel(<, Nat), Nat)
    BY NatLessThanWellFounded
  <1>2. \A x, y \in Nat : y < x => <<y, x>> \in OpToRel(<, Nat)
    BY DEF OpToRel
  <1> QED BY <1>1, <1>2, Zenon

\* A non-empty set of natural numbers has a least element.
LEMMA LeastNat ==
    ASSUME NEW S \in SUBSET Nat, S # {}
    PROVE  \E n \in S : \A m \in S : n <= m
  <1>1. PICK R : IsWellFoundedOn(R, Nat) /\ \A x, y \in Nat : y < x => <<y, x>> \in R
    BY NatOrder
  <1>2. PICK x \in S : \A y \in S : ~ (<<y, x>> \in R)
    BY <1>1, WFMin
  <1>3. \A m \in S : ~(m < x)
    BY <1>1, <1>2
  <1>4. S \subseteq Nat
    OBVIOUS
  <1> QED BY <1>3, <1>4

\* A non-empty set of natural numbers below a bound has a greatest element.
LEMMA GreatestNat ==
    ASSUME NEW b \in Nat, NEW S \in SUBSET (0 .. b), S # {}
    PROVE  \E n \in S : \A m \in S : m <= n
  <1> DEFINE T == {b - n : n \in S}
  <1>1. T \in SUBSET Nat /\ T # {}
    <2>1. \A n \in S : b - n \in Nat
      OBVIOUS
    <2>2. T # {}
      OBVIOUS
    <2> QED BY <2>1, <2>2
  <1>2. PICK k \in T : \A m \in T : k <= m
    <2> HIDE DEF T
    <2> QED BY <1>1, LeastNat
  <1>3. PICK n \in S : k = b - n
    BY <1>2
  <1>4. ASSUME NEW m \in S PROVE m <= n
    <2>1. b - n <= b - m
      BY <1>2, <1>3, <1>4
    <2> QED BY <2>1
  <1> QED BY <1>4

\* A set of natural numbers is empty if, with each, it has a smaller one.
LEMMA NoDescent ==
    ASSUME NEW S \in SUBSET Nat, \A n \in S : \E k \in S : k < n
    PROVE  S = {}
  <1> SUFFICES ASSUME S # {} PROVE FALSE
    OBVIOUS
  <1>1. PICK n \in S : \A k \in S : n <= k
    BY LeastNat
  <1>2. PICK k \in S : k < n
    OBVIOUS
  <1> QED BY <1>1, <1>2

\* What is true of 0 and passes from each number to the next is true up to a
\* bound.
LEMMA UpTo ==
    ASSUME NEW b \in Nat, NEW S, 0 \in S,
           \A n \in 1..b : n - 1 \in S => n \in S
    PROVE  0..b \subseteq S
  <1> DEFINE T == (0..b) \ S
  <1>1. T \in SUBSET Nat
    OBVIOUS
  <1>2. ASSUME NEW n \in T PROVE \E k \in T : k < n
    <2>1. n \in 1..b /\ n - 1 \in 0..b /\ n - 1 < n
      BY <1>2
    <2>2. n - 1 \notin S
      BY <1>2, <2>1
    <2> QED BY <2>1, <2>2
  <1>3. T = {}
    <2> HIDE DEF T
    <2> QED BY <1>1, <1>2, NoDescent
  <1> QED BY <1>3

\* From a value at 0, a function goes on from each number to the next.
GoesOn(g, b, c, F) == g[0] = c /\ \A n \in 1..b : g[n] = F[<<n, g[n - 1]>>]

\* There is such a function.
LEMMA StepByStep ==
    ASSUME NEW b \in Nat, NEW M, NEW c \in M, NEW F \in [Nat \X M -> M]
    PROVE  \E g \in [0..b -> M] : GoesOn(g, b, c, F)
  <1> DEFINE Is(k, g) == g[0] = c /\ \A n \in 1..k : g[n] = F[<<n, g[n - 1]>>]
             S == {k \in Nat : \E g \in [0..k -> M] : Is(k, g)}
  <1>1. 0 \in S
    <2>1. [n \in 0..0 |-> c] \in [0..0 -> M] /\ Is(0, [n \in 0..0 |-> c])
      OBVIOUS
    <2> QED BY <2>1
  <1>2. ASSUME NEW k \in 1..b, k - 1 \in S PROVE k \in S
    <2>1. PICK g \in [0..(k - 1) -> M] : Is(k - 1, g)
      BY <1>2
    <2> DEFINE h == [n \in 0..k |-> IF n = k THEN F[<<k, g[k - 1]>>] ELSE g[n]]
    <2>2. g[k - 1] \in M /\ F[<<k, g[k - 1]>>] \in M
      <3>1. k - 1 \in 0..(k - 1) /\ k \in Nat
        OBVIOUS
      <3>2. g[k - 1] \in M
        BY <3>1
      <3> QED BY <3>1, <3>2
    <2>3. h \in [0..k -> M]
      <3>1. ASSUME NEW n \in 0..k PROVE h[n] \in M
        BY <2>2
      <3> QED BY <3>1
    <2>4. h[0] = c
      BY <2>1
    <2>5. ASSUME NEW n \in 1..k PROVE h[n] = F[<<n, h[n - 1]>>]
      <3>1. CASE n = k
        <4>1. k \in 0..k /\ k - 1 \in 0..k /\ k - 1 # k
          OBVIOUS
        <4>2. h[k - 1] = g[k - 1] /\ h[k] = F[<<k, g[k - 1]>>]
          BY <4>1
        <4> QED BY <3>1, <4>2
      <3>2. CASE n # k
        <4>1. n \in 1..(k - 1) /\ n \in 0..k /\ n - 1 \in 0..k /\ n - 1 # k
          BY <3>2
        <4>2. g[n] = F[<<n, g[n - 1]>>]
          BY <2>1, <4>1
        <4>3. h[n] = g[n] /\ h[n - 1] = g[n - 1]
          BY <3>2, <4>1
        <4> QED BY <4>2, <4>3
      <3> QED BY <3>1, <3>2
    <2> HIDE DEF h
    <2> QED BY <2>3, <2>4, <2>5
  <1>3. 0..b \subseteq S
    <2> HIDE DEF S
    <2> QED BY <1>1, <1>2, UpTo
  <1> QED BY <1>3 DEF GoesOn
=============================================================================
