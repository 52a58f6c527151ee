---------------------------- MODULE NumberLemmas -----------------------------
(***************************************************************************)
(* What the other proofs need of whole numbers: induction, the least and   *)
(* the greatest number of a set, and powers of two.                        *)
(***************************************************************************)
EXTENDS Integers, FiniteSets, FiniteSetTheorems, WellFoundedInduction, TLAPS

(* A set of natural numbers that is not empty has a least one.             *)
LEMMA LeastOf ==
  ASSUME NEW T, T \subseteq Nat, T # {}
  PROVE  \E x \in T : \A y \in T : x <= y
<1> DEFINE R == {ss \in Nat \X Nat : ss[1] < ss[2]}
<1>1. IsWellFoundedOn(R, Nat)
  BY NatLessThanWellFounded DEF OpToRel
<1>2. \E x \in T : \A y \in T : ~ (<<y, x>> \in R)
  <2> HIDE DEF R
  <2> QED BY <1>1, WFMin
<1>3. PICK x \in T : \A y \in T : ~ (<<y, x>> \in R)
  BY <1>2
<1>4. \A y \in T : x <= y
  <2> TAKE y \in T
  <2>1. x \in Nat /\ y \in Nat
    OBVIOUS
  <2>2. <<y, x>> \in Nat \X Nat /\ ~ (<<y, x>> \in R)
    BY <2>1, <1>3, Zenon
  <2>3. ~ (<<y, x>>[1] < <<y, x>>[2])
    BY <2>2, Zenon
  <2> QED BY <2>1, <2>3
<1> QED BY <1>4

(* And a greatest one if it is bounded.                                    *)
LEMMA GreatestOf ==
  ASSUME NEW n \in Nat, NEW T, T \subseteq 0..n, T # {}
  PROVE  \E x \in T : \A y \in T : y <= x
<1> DEFINE M == {n - y : y \in T}
<1>1. PICK m \in M : \A y \in M : m <= y
  <2>1. \A y \in T : n - y \in Nat
    OBVIOUS
  <2>2. M \subseteq Nat /\ M # {}
    BY <2>1, Zenon
  <2> HIDE DEF M
  <2> QED BY <2>2, LeastOf
<1>2. PICK x \in T : m = n - x
  BY <1>1
<1>3. \A y \in T : n - x <= n - y
  BY <1>1, <1>2
<1> QED BY <1>3

(* Induction: what holds of 0, and of n + 1 wherever it holds of n, holds  *)
(* of every natural number.                                                *)
LEMMA Upward ==
  ASSUME NEW S, 0 \in S, \A n \in Nat : n \in S => n + 1 \in S
  PROVE  \A n \in Nat : n \in S
<1> SUFFICES ASSUME Nat \ S # {} PROVE FALSE
  OBVIOUS
<1>1. PICK x \in Nat \ S : \A y \in Nat \ S : x <= y
  BY LeastOf
<1>2. x # 0 /\ x - 1 \in Nat
  BY <1>1
<1>3. x - 1 \in S
  BY <1>1, <1>2
<1> QED BY <1>1, <1>2, <1>3

(* 2^n counts the subsets of 1..n, among which are n singletons.           *)
LEMMA PowerOfTwo ==
  ASSUME NEW n \in Nat
  PROVE  2^n \in Nat /\ 2^n >= n /\ 2^n >= 1
<1>1. IsFiniteSet(1..n) /\ Cardinality(1..n) = n
  BY FS_Interval
<1>2. IsFiniteSet(SUBSET (1..n)) /\ Cardinality(SUBSET (1..n)) = 2^n
  BY <1>1, FS_SUBSET
<1>3. 2^n \in Nat
  BY <1>2, FS_CardinalityType
<1>4. 2^n >= n
  <2> DEFINE single == [i \in 1..n |-> {i}]
  <2>1. IsInjective(single) /\ single \in [1..n -> SUBSET (1..n)]
    BY DEF IsInjective
  <2>2. single \in Injection(1..n, SUBSET (1..n))
    BY <2>1 DEF Injection
  <2> HIDE DEF single
  <2> QED BY <1>1, <1>2, <1>3, <2>2, FS_Injection
<1>5. 2^n # 0
  BY <1>2, FS_EmptySet
<1> QED BY <1>3, <1>4, <1>5

(* Doubled often enough, a number is as large as one likes.                *)
LEMMA DoublingReaches ==
  ASSUME NEW c \in Nat \ {0}, NEW n \in Nat
  PROVE  c * 2^n \in Nat /\ c * 2^n >= n
<1> DEFINE p == 2^n
<1>1. p \in Nat /\ p >= n
  BY PowerOfTwo
<1> HIDE DEF p
<1>2. c * p \in Nat /\ c * p >= p
  BY <1>1, SMTT(30)
<1>3. c * p \in Nat /\ c * p >= n
  BY <1>1, <1>2
<1> QED BY <1>3 DEF p
==============================================================================
