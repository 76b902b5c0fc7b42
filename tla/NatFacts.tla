------------------------------- MODULE NatFacts -------------------------------
(***************************************************************************)
(* Facts about natural numbers that the proofs of several components use:  *)
(* division with remainder, and the least element of a set, which stands   *)
(* for induction.                                                          *)
(***************************************************************************)
EXTENDS Integers, FiniteSetTheorems, TLAPS

(* Multiplication is monotone. *)
LEMMA MulMono ==
  ASSUME NEW S \in Nat, NEW a \in Nat, NEW b \in Nat, a <= b
  PROVE  a * S <= b * S
OBVIOUS

(* A product of natural numbers is one. *)
LEMMA MulNat ==
  ASSUME NEW a \in Nat, NEW b \in Nat
  PROVE  a * b \in Nat
OBVIOUS

(* A number with no remainder is a multiple. *)
LEMMA Multiple ==
  ASSUME NEW S \in Nat \ {0}, NEW x \in Nat, x % S = 0
  PROVE  x = (x \div S) * S
OBVIOUS

(* Quotient and remainder have their types, and give back the number. *)
LEMMA DivMod ==
  ASSUME NEW S \in Nat \ {0}, NEW x \in Nat
  PROVE  x \div S \in Nat /\ x % S \in 0 .. S - 1 /\ x = (x \div S) * S + (x % S)
OBVIOUS

(* There is only one quotient and one remainder. *)
LEMMA DivModUnique ==
  ASSUME NEW S \in Nat \ {0}, NEW q \in Nat, NEW m \in 0 .. S - 1
  PROVE  (q * S + m) \div S = q /\ (q * S + m) % S = m
OBVIOUS

(* The remainder of a successor depends on the remainder only. *)
LEMMA SuccMod ==
  ASSUME NEW S \in Nat \ {0}, NEW x \in Nat
  PROVE  (x + 1) % S = ((x % S) + 1) % S
<1> DEFINE q == x \div S
           m == x % S
<1>1. q \in Nat /\ m \in 0 .. S - 1 /\ x = q * S + m
  BY DivMod
<1> HIDE DEF q, m
<1>2. CASE m = S - 1
  <2>1. x + 1 = (q + 1) * S + 0
    BY <1>1, <1>2
  <2>2. (x + 1) % S = 0
    BY <2>1, <1>1, DivModUnique
  <2>3. (m + 1) % S = 0
    BY <1>2, S = 1 * S + 0, DivModUnique
  <2> QED
    BY <2>2, <2>3 DEF m
<1>3. CASE m # S - 1
  <2>1. x + 1 = q * S + (m + 1) /\ m + 1 \in 0 .. S - 1
    BY <1>1, <1>3
  <2>2. (x + 1) % S = m + 1
    BY <2>1, <1>1, DivModUnique
  <2>3. (m + 1) % S = m + 1
    BY <2>1, m + 1 = 0 * S + (m + 1), DivModUnique
  <2> QED
    BY <2>2, <2>3 DEF m
<1> QED
  BY <1>2, <1>3

(* A set of natural numbers has a least element: intervals that start at 0 *)
(* are finite sets, and those are well-founded under inclusion.            *)
LEMMA LeastNatural ==
  ASSUME NEW T \in SUBSET Nat, T # {}
  PROVE  \E m \in T : \A k \in T : m <= k
<1> DEFINE I == {0 .. n : n \in T}
<1>1. I \subseteq FiniteSubsetsOf(Nat)
  <2> SUFFICES ASSUME NEW n \in T PROVE 0 .. n \in FiniteSubsetsOf(Nat)
    OBVIOUS
  <2>1. IsFiniteSet(0 .. n)
    BY FS_Interval, n \in Int
  <2> QED
    BY <2>1 DEF FiniteSubsetsOf
<1>2. PICK x \in I : \A y \in I : <<y, x>> \notin StrictSubsetOrdering(Nat)
  BY <1>1, I # {}, WFMin, FS_StrictSubsetOrderingWellFounded
<1>3. PICK m \in T : x = 0 .. m
  OBVIOUS
<1>4. ASSUME NEW k \in T, k < m PROVE FALSE
  <2>1. 0 .. k \in I /\ 0 .. k \in SUBSET Nat /\ 0 .. m \in SUBSET Nat
    OBVIOUS
  <2>2. m \in 0 .. m /\ m \notin 0 .. k
    BY <1>4
  <2>3. 0 .. k \subseteq 0 .. m /\ 0 .. k # 0 .. m
    BY <2>2, <1>4
  <2>4. <<0 .. k, 0 .. m>> \in StrictSubsetOrdering(Nat)
    BY <2>1, <2>3 DEF StrictSubsetOrdering
  <2> QED
    BY <2>1, <2>4, <1>2, <1>3
<1> QED
  BY <1>4
=============================================================================
