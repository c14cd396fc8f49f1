----------------------------- MODULE Induction ------------------------------
(***************************************************************************)
(* Induction over the natural numbers for sets, which the provers can      *)
(* instantiate, and from it the existence of functions that are defined by *)
(* recursion along an interval.                                            *)
(***************************************************************************)
EXTENDS Integers, WellFoundedInduction, TLAPS

\* A set of naturals that is not empty has a least member.
LEMMA LeastMember ==
  ASSUME NEW T, T \subseteq Nat, T # {}
  PROVE  \E x \in T : \A y \in T : x <= y
<1> DEFINE R == OpToRel(<, Nat)
<1>1. IsWellFoundedOn(R, Nat)
  BY NatLessThanWellFounded, Zenon
<1>2. \A x, y \in Nat : y < x => <<y, x>> \in R
  BY DEF OpToRel
<1> HIDE DEF R
<1>3. PICK x \in T : \A y \in T : <<y, x>> \notin R
  BY <1>1, WFMin
<1>4. \A y \in T : ~(y < x)
  BY <1>2, <1>3
<1>5. \A y \in T : x <= y
  BY <1>4
<1> QED BY <1>5

\* What holds of 0, and of n + 1 if of n, holds of every natural number.
LEMMA SetInduction ==
  ASSUME NEW T, 0 \in T, \A n \in Nat : n \in T => n + 1 \in T
  PROVE  Nat \subseteq T
<1> SUFFICES ASSUME Nat \ T # {} PROVE FALSE
  OBVIOUS
<1>1. PICK x \in Nat \ T : \A y \in Nat \ T : x <= y
  BY LeastMember
<1>2. x # 0 /\ x - 1 \in Nat /\ x - 1 \in T
  BY <1>1
<1>3. (x - 1) + 1 = x
  BY <1>1
<1> QED BY <1>1, <1>2, <1>3

\* f holds x and what the first 1, ..., k steps make of it.
Iterates(f, x, F, k) ==
  f[0] = x /\ \A i \in 1..k : i \in DOMAIN F => f[i] = F[i][f[i - 1]]

\* The iterates of n steps exist as a function: F[i] is what step i does.
LEMMA Recursion ==
  ASSUME NEW S, NEW x \in S, NEW n \in Nat, NEW F \in [1..n -> [S -> S]]
  PROVE  \E g \in [0..n -> S] : Iterates(g, x, F, n)
<1> DEFINE T == {k \in Nat : \E f \in [0..k -> S] : Iterates(f, x, F, k)}
<1>1. 0 \in T
  <2> DEFINE h == [i \in 0..0 |-> x]
  <2>1. h \in [0..0 -> S] /\ Iterates(h, x, F, 0)
    BY DEF Iterates
  <2> HIDE DEF h
  <2> QED BY <2>1
<1>2. ASSUME NEW m \in Nat, m \in T PROVE m + 1 \in T
  <2>1. PICK g \in [0..m -> S] : Iterates(g, x, F, m)
    BY <1>2
  <2> DEFINE h == [i \in 0..(m + 1) |->
                     IF i \in 0..m THEN g[i] ELSE IF i \in 1..n THEN F[i][g[i - 1]] ELSE x]
  <2>2. h \in [0..(m + 1) -> S]
    <3>1. \A i \in 0..(m + 1) : i \notin 0..m => i - 1 \in 0..m
      OBVIOUS
    <3>2. \A i \in 0..(m + 1) : i \notin 0..m /\ i \in 1..n => F[i][g[i - 1]] \in S
      BY <3>1
    <3> QED BY <3>2
  <2>3. Iterates(h, x, F, m + 1)
    BY <2>1 DEF Iterates
  <2> HIDE DEF h
  <2>4. \E f \in [0..(m + 1) -> S] : Iterates(f, x, F, m + 1)
    BY <2>2, <2>3, Zenon
  <2>5. m + 1 \in Nat
    OBVIOUS
  <2> QED BY <2>4, <2>5, Zenon
<1> HIDE DEF T
<1>3. n \in T
  BY <1>1, <1>2, SetInduction
<1> QED BY <1>3 DEF T

\* The running sums of n naturals.
LEMMA RunningSum ==
  ASSUME NEW n \in Nat, NEW r \in [1..n -> Nat]
  PROVE  \E g \in [0..n -> Nat] : g = [e \in 0..n |-> IF e = 0 THEN 0 ELSE g[e - 1] + r[e]]
<1> DEFINE S == Nat
           F == [e \in 1..n |-> [y \in Nat |-> y + r[e]]]
<1>1. 0 \in S /\ F \in [1..n -> [S -> S]]
  OBVIOUS
<1>2. \A e \in 1..n, y \in Nat : F[e][y] = y + r[e]
  OBVIOUS
<1> HIDE DEF F, S
<1>3. PICK g \in [0..n -> S] : Iterates(g, 0, F, n)
  BY <1>1, Recursion
<1>4. \A e \in 0..n : e # 0 => g[e] = g[e - 1] + r[e]
  <2> SUFFICES ASSUME NEW e \in 0..n, e # 0 PROVE g[e] = g[e - 1] + r[e]
    OBVIOUS
  <2>1. e \in 1..n /\ e - 1 \in 0..n
    OBVIOUS
  <2>2. g[e - 1] \in Nat
    BY <2>1 DEF S
  <2> QED BY <1>1, <1>2, <1>3, <2>1, <2>2 DEF Iterates
<1>5. g = [e \in 0..n |-> IF e = 0 THEN 0 ELSE g[e - 1] + r[e]]
  BY <1>3, <1>4 DEF Iterates
<1> QED BY <1>5 DEF S
=============================================================================
