--------------------------- MODULE IntervalFacts ----------------------------
(***************************************************************************)
(* Least and greatest elements of sets of numbers, and induction over the  *)
(* numbers stated with a set in place of a predicate.                      *)
(***************************************************************************)
EXTENDS Integers, FiniteSetsExt, WellFoundedInduction, TLAPS

(* A set of natural numbers that is not empty has a least element. *)
LEMMA LeastExists ==
  ASSUME NEW S \in SUBSET Nat, S # {}
  PROVE  \E x \in S : \A y \in S : x <= y
  <1>1. PICK R : R = OpToRel(<, Nat)  OBVIOUS
  <1>2. R = {p \in Nat \X Nat : p[1] < p[2]}  BY <1>1 DEF OpToRel
  <1>3. IsWellFoundedOn(R, Nat)  BY <1>1, NatLessThanWellFounded
  <1>4. PICK x \in S : \A y \in S : ~ (<<y, x>> \in R)  BY <1>3, WFMin
  <1>5. \A y \in S : ~ (y < x)  BY <1>2, <1>4
  <1> QED  BY <1>5

(* Min of a set of natural numbers that is not empty. *)
LEMMA MinOfNats ==
  ASSUME NEW S \in SUBSET Nat, S # {}
  PROVE  Min(S) \in S /\ \A y \in S : Min(S) <= y
  BY LeastExists DEF Min

(* Max of a set of numbers up to n that is not empty. *)
LEMMA MaxUpTo ==
  ASSUME NEW n \in Nat, NEW S \in SUBSET (0 .. n), S # {}
  PROVE  Max(S) \in S /\ \A y \in S : Max(S) >= y
  <1> DEFINE T == {k \in 0 .. n : n - k \in S}
  <1>1. \E x \in T : \A y \in T : x <= y
    <2>1. PICK s \in S : TRUE  OBVIOUS
    <2>2. n - s \in 0 .. n /\ n - (n - s) = s  OBVIOUS
    <2>3. T \in SUBSET Nat /\ T # {}  BY <2>1, <2>2
    <2> HIDE DEF T
    <2> QED  BY <2>3, LeastExists
  <1>2. PICK x \in T : \A y \in T : x <= y  BY <1>1
  <1>3. \A y \in S : y \in 0 .. n /\ n - y \in T  OBVIOUS
  <1>4. ASSUME NEW y \in S PROVE n - x >= y
    <2>1. x \in 0 .. n  OBVIOUS
    <2>2. y \in 0 .. n /\ x <= n - y  BY <1>2, <1>3
    <2> HIDE DEF T
    <2> QED  BY <2>1, <2>2
  <1> QED  BY <1>4 DEF Max

(* A number above all others is the greatest. *)
LEMMA MaxWithGreater ==
  ASSUME NEW n \in Nat, NEW S \in SUBSET (1 .. n)
  PROVE  Max(S \cup {n + 1}) = n + 1
  <1>1. PICK T : T = S \cup {n + 1}  OBVIOUS
  <1>2. n + 1 \in Nat /\ T \in SUBSET (0 .. n + 1) /\ T # {}  BY <1>1
  <1>3. Max(T) \in T /\ \A y \in T : Max(T) >= y  BY <1>2, MaxUpTo
  <1>4. Max(T) \in 0 .. n + 1 /\ Max(T) >= n + 1  BY <1>1, <1>2, <1>3
  <1>5. Max(T) = n + 1  BY <1>4
  <1> QED  BY <1>1, <1>5

(* Induction: a set that holds zero and the successor of each of its       *)
(* members holds every number.                                             *)
LEMMA NatsBySuccessor ==
  ASSUME NEW T, 0 \in T, \A n \in Nat : n \in T => n + 1 \in T
  PROVE  \A n \in Nat : n \in T
  <1> SUFFICES ASSUME ~ \A n \in Nat : n \in T PROVE FALSE  OBVIOUS
  <1> DEFINE S == {n \in Nat : n \notin T}
  <1>1. S \in SUBSET Nat /\ S # {}  OBVIOUS
  <1>2. PICK x \in S : \A y \in S : x <= y
    <2> HIDE DEF S
    <2> QED  BY <1>1, LeastExists
  <1>3. x \in Nat /\ x # 0 /\ x - 1 \in Nat /\ x - 1 \notin S  BY <1>2
  <1>4. x - 1 \in T /\ (x - 1) + 1 = x  BY <1>3
  <1> QED  BY <1>2, <1>3, <1>4

(* A number is its own remainder modulo a greater one. *)
LEMMA ModOfSmaller ==
  ASSUME NEW x \in Nat, NEW m \in Nat, x < m
  PROVE  x % m = x
  OBVIOUS
=============================================================================
