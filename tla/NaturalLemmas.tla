---------------------------- MODULE NaturalLemmas -----------------------------
(* Facts about natural numbers that the proofs about the two hash tables   *)
(* share: a least element, and the remainders a probe sequence goes        *)
(* through.                                                                *)
EXTENDS Integers, WellFoundedInduction, TLAPS

(* Naturals are well-ordered.                                              *)
LEMMA Least ==
    ASSUME NEW S \in SUBSET Nat, S # {}
    PROVE  \E n \in S : \A m \in S : n <= m
<1> DEFINE R == {p \in Nat \X Nat : p[1] < p[2]}
<1>1. IsWellFoundedOn(R, Nat)
  BY NatLessThanWellFounded DEF OpToRel
<1>2. \E n \in S : \A m \in S : <<m, n>> \notin R
  <2> HIDE DEF R
  <2> QED BY <1>1, WFMin
<1>3. \A m, n \in S : <<m, n>> \notin R => n <= m
  OBVIOUS
<1> QED BY <1>2, <1>3

LEMMA ModRange ==
    ASSUME NEW c \in Nat \ {0}, NEW a \in Nat PROVE a % c \in 0..(c - 1)
  OBVIOUS

LEMMA ModOfSum ==
    ASSUME NEW c \in Nat \ {0}, NEW q \in Nat, NEW r \in 0..(c - 1) PROVE (q * c + r) % c = r
  OBVIOUS

(* Every slot is on the way from every home: the probe goes all around.    *)
LEMMA ModCovers ==
    ASSUME NEW c \in Nat \ {0}, NEW a \in Nat, NEW i \in 0..(c - 1)
    PROVE  \E n \in 0..(c - 1) : (a + n) % c = i
<1> DEFINE q == a \div c
           r == a % c
<1>1. q \in Nat /\ r \in 0..(c - 1) /\ a = q * c + r
  OBVIOUS
<1> HIDE DEF q, r
<1>2. CASE r <= i
  <2>1. i - r \in 0..(c - 1) /\ a + (i - r) = q * c + i
    BY <1>1, <1>2
  <2> QED BY <2>1, <1>1, ModOfSum
<1>3. CASE r > i
  <2>1. i - r + c \in 0..(c - 1) /\ a + (i - r + c) = (q + 1) * c + i /\ q + 1 \in Nat
    BY <1>1, <1>3
  <2>2. ((q + 1) * c + i) % c = i
    BY <2>1, ModOfSum
  <2> QED BY <2>1, <2>2
<1> QED BY <1>1, <1>2, <1>3

=============================================================================
