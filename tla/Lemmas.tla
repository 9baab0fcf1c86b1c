------------------------------- MODULE Lemmas -------------------------------
(***************************************************************************)
(* Facts about numbers that the proofs of several components rest on.      *)
(***************************************************************************)
EXTENDS Integers, TLAPS

-----------------------------------------------------------------------------
\* Arithmetic of products and quotients, which the solver needs step by step.

\* A product grows with its left factor.
LEMMA ProductMonotone ==
    ASSUME NEW a \in Nat, NEW b \in Nat, NEW c \in Nat, a =< b
    PROVE  a * c =< b * c
  <1>1. PICK d \in Nat : b = a + d
    BY b - a \in Nat
  <1>2. b * c = a * c + d * c
    BY <1>1
  <1>3. d * c \in Nat
    OBVIOUS
  <1> QED
    BY <1>2, <1>3

\* A positive common factor cancels from a comparison.
LEMMA ProductCancel ==
    ASSUME NEW a \in Nat, NEW b \in Nat, NEW c \in Nat, c > 0, a * c < b * c
    PROVE  a < b
  <1>1. SUFFICES ASSUME b =< a PROVE FALSE
    OBVIOUS
  <1>2. b * c =< a * c
    BY <1>1, ProductMonotone
  <1> QED
    BY <1>2

\* One more of a factor.
LEMMA ProductNext == ASSUME NEW a \in Nat, NEW b \in Nat PROVE (a + 1) * b = a * b + b /\ a * b \in Nat
  OBVIOUS

\* What \div computes.
LEMMA Quotient ==
    ASSUME NEW a \in Nat, NEW b \in Nat, b > 0
    PROVE  /\ a \div b \in Nat
           /\ (a \div b) * b =< a
           /\ a < (a \div b + 1) * b
  OBVIOUS

\* What % computes.
LEMMA Remainder ==
    ASSUME NEW a \in Nat, NEW b \in Nat, b > 0
    PROVE  /\ a % b \in 0..b - 1
           /\ a = (a \div b) * b + (a % b)
  OBVIOUS

\* A quotient is determined by its bounds.
LEMMA QuotientUnique ==
    ASSUME NEW a \in Nat, NEW b \in Nat, b > 0, NEW k \in Nat,
           k * b =< a, a < (k + 1) * b
    PROVE  a \div b = k
  <1> DEFINE d == a \div b
  <1>1. d \in Nat /\ d * b =< a /\ a < (d + 1) * b
    BY Quotient
  <1>2. k < d + 1
    <2>1. k * b < (d + 1) * b
      BY <1>1
    <2> QED
      BY <1>1, <2>1, ProductCancel, d + 1 \in Nat
  <1>3. d < k + 1
    <2>1. d * b < (k + 1) * b
      BY <1>1
    <2> QED
      BY <1>1, <2>1, ProductCancel, k + 1 \in Nat
  <1> QED
    BY <1>1, <1>2, <1>3

\* A quotient rounded down is at least so much when the dividend is.
LEMMA FloorAtLeast ==
    ASSUME NEW a \in Nat, NEW b \in Nat, b > 0, NEW k \in Nat
    PROVE  a \div b >= k <=> a >= k * b
  <1> DEFINE x == a \div b
  <1>1. x \in Nat /\ x * b =< a /\ a < (x + 1) * b
    BY Quotient
  <1> HIDE DEF x
  <1>2. ASSUME x >= k PROVE a >= k * b
    <2>1. k * b =< x * b
      BY <1>1, <1>2, ProductMonotone
    <2> QED
      BY <1>1, <2>1, k * b \in Nat, x * b \in Nat
  <1>3. ASSUME a >= k * b PROVE x >= k
    <2>1. k * b < (x + 1) * b
      BY <1>1, <1>3, k * b \in Nat, (x + 1) * b \in Nat
    <2>2. k < x + 1
      BY <1>1, <2>1, ProductCancel, x + 1 \in Nat
    <2> QED
      BY <1>1, <2>2
  <1> QED
    BY <1>2, <1>3 DEF x
=============================================================================
