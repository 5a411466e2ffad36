----------------------------- MODULE NatFacts -------------------------------
(***************************************************************************)
(* The least number of a set of naturals, induction stated on a set        *)
(* instead of on a predicate, and division with remainder: the facts about *)
(* numbers that the proofs of the components share.                        *)
(***************************************************************************)
EXTENDS Integers, WellFoundedInduction, TLAPS

\* A set of naturals that is not empty has a least element.
LEMMA LeastNat ==
    ASSUME NEW S \in SUBSET Nat, S # {}
    PROVE  \E n \in S : \A m \in S : n <= m
  <1> DEFINE R == OpToRel(<, Nat)
  <1>1. IsWellFoundedOn(R, Nat)
    BY NatLessThanWellFounded
  <1>2. \A x, y \in Nat : <<y, x>> \in R <=> y < x
    BY DEF OpToRel
  <1> HIDE DEF R
  <1>3. PICK x \in S : \A y \in S : ~(<<y, x>> \in R)
    BY <1>1, WFMin
  <1>4. ASSUME NEW m \in S PROVE x <= m
    <2>1. x \in Nat /\ m \in Nat
      OBVIOUS
    <2>2. ~(m < x)
      BY <1>2, <1>3, <2>1
    <2> QED BY <2>1, <2>2
  <1> QED BY <1>4

\* A set that has 0 and with every natural its successor has all of them.
LEMMA SetInduction ==
    ASSUME NEW S \in SUBSET Nat, 0 \in S, \A n \in S : n + 1 \in S
    PROVE  S = Nat
  <1> SUFFICES ASSUME S # Nat PROVE FALSE
    OBVIOUS
  <1> DEFINE T == Nat \ S
  <1>1. T \in SUBSET Nat /\ T # {}
    OBVIOUS
  <1>2. PICK n \in T : \A m \in T : n <= m
    BY <1>1, LeastNat
  <1>3. n \in Nat /\ n # 0
    BY <1>2
  <1>4. n - 1 \in Nat /\ n - 1 \notin T
    BY <1>2, <1>3
  <1>5. (n - 1) + 1 \in S
    BY <1>4
  <1> QED BY <1>3, <1>5

\* Division with remainder.
LEMMA DivMod ==
    ASSUME NEW N \in Nat, N > 0, NEW x \in Nat
    PROVE  /\ x % N \in 0 .. N - 1
           /\ x \div N \in Nat
           /\ x = N * (x \div N) + (x % N)
  OBVIOUS

\* Different multiples of N are at least N apart.
LEMMA MulGap ==
    ASSUME NEW N \in Nat, N > 0, NEW a \in Int, NEW b \in Int, a < b
    PROVE  N * a + N <= N * b
  <1>1. b - a >= 1
    OBVIOUS
  <1>2. N * (b - a) >= N
    BY <1>1
  <1> QED BY <1>2

\* Only one remainder.
LEMMA ModIs ==
    ASSUME NEW N \in Nat, N > 0, NEW a \in Nat, NEW m \in 0 .. N - 1
    PROVE  (N * a + m) % N = m
  <1> DEFINE x == N * a + m
             q == x \div N
  <1>1. x \in Nat
    OBVIOUS
  <1>2. x = N * q + (x % N) /\ q \in Nat /\ x % N \in 0 .. N - 1
    BY <1>1, DivMod
  <1>3. x = N * a + m
    OBVIOUS
  <1> HIDE DEF x, q
  <1>4. CASE a < q
    BY <1>2, <1>3, <1>4, MulGap
  <1>5. CASE q < a
    BY <1>2, <1>3, <1>5, MulGap
  <1>6. CASE q = a
    BY <1>2, <1>3, <1>6
  <1>7. a < q \/ q < a \/ q = a
    BY <1>2
  <1> QED BY <1>4, <1>5, <1>6, <1>7
=============================================================================
