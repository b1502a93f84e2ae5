----------------------------- MODULE LeastNumber -----------------------------
(***************************************************************************)
(* Facts about natural numbers that the proofs of several modules need:    *)
(* the least member of a set, induction over an interval, and quotients.   *)
(***************************************************************************)
EXTENDS Integers, FiniteSetsExt, WellFoundedInduction, TLAPS

\* FiniteSetsExt's Min is the least member of any nonempty set of naturals.
LEMMA MinIsMember ==
    ASSUME NEW S \in SUBSET Nat, S # {}
    PROVE  Min(S) \in S /\ \A x \in S : Min(S) <= x
<1>1. OpToRel(<, Nat) = {ss \in Nat \X Nat : ss[1] < ss[2]}
  BY Zenon DEF OpToRel
<1>2. PICK R : R = {ss \in Nat \X Nat : ss[1] < ss[2]}
  OBVIOUS
<1>3. IsWellFoundedOn(R, Nat)
  BY <1>1, <1>2, NatLessThanWellFounded, Zenon
<1>4. PICK m \in S : \A x \in S : <<x, m>> \notin R
  BY <1>3, WFMin
<1>5. ASSUME NEW x \in S PROVE m <= x
  <2>1. <<x, m>> \in Nat \X Nat /\ m \in Nat /\ x \in Nat
    OBVIOUS
  <2>2. ~(<<x, m>>[1] < <<x, m>>[2])
    BY <1>2, <1>4, <2>1
  <2> QED BY <2>1, <2>2
<1> QED BY <1>5 DEF Min

\* Induction over an interval.  The property is given by the set of the
\* numbers that have it.
LEMMA IntervalInduction ==
    ASSUME NEW n \in Nat, NEW S, 0 \in S,
           \A i \in 0..(n - 1) : i \in S => i + 1 \in S
    PROVE  \A i \in 0..n : i \in S
<1> SUFFICES ASSUME NEW j \in 0..n, j \notin S PROVE FALSE
  OBVIOUS
<1>1. PICK W : W = {i \in 0..n : i \notin S}
  OBVIOUS
<1>2. W \in SUBSET Nat /\ W # {}
  BY <1>1
<1>3. PICK m \in W : \A i \in W : m <= i
  BY <1>2, MinIsMember
<1>4. m \in 1..n /\ m \notin S
  BY <1>1, <1>3
<1>5. m - 1 \in 0..(n - 1) /\ m - 1 \in 0..n /\ ~(m <= m - 1) /\ (m - 1) + 1 = m
  BY <1>4
<1>6. m - 1 \in S
  BY <1>1, <1>3, <1>5
<1> QED BY <1>4, <1>5, <1>6

\* A quotient and a remainder are determined by their sum.
LEMMA QuotientUnique ==
    ASSUME NEW d \in Nat \ {0}, NEW q \in Nat, NEW r \in Nat, r < d
    PROVE  (d * q + r) \div d = q /\ (d * q + r) % d = r
<1>1. PICK x : x = d * q + r
  OBVIOUS
<1>2. x \in Nat
  BY <1>1
<1>3. PICK p \in Nat, s \in Nat : p = x \div d /\ s = x % d /\ s < d /\ x = d * p + s
  BY <1>2
<1>4. d * p + s = d * q + r
  BY <1>1, <1>3
<1>5. CASE p < q
  <2>1. PICK t \in Nat : q = p + 1 + t
    <3>1. q - p - 1 \in Nat /\ q = p + 1 + (q - p - 1)
      BY <1>5
    <3> QED BY <3>1
  <2>2. d * q = d * p + d + d * t
    BY <2>1
  <2>3. d * t >= 0 /\ d * t \in Nat /\ d * p \in Nat
    OBVIOUS
  <2> QED BY <1>3, <1>4, <2>2, <2>3
<1>6. CASE q < p
  <2>1. PICK t \in Nat : p = q + 1 + t
    <3>1. p - q - 1 \in Nat /\ p = q + 1 + (p - q - 1)
      BY <1>6
    <3> QED BY <3>1
  <2>2. d * p = d * q + d + d * t
    BY <2>1
  <2>3. d * t >= 0 /\ d * t \in Nat /\ d * q \in Nat
    OBVIOUS
  <2> QED BY <1>3, <1>4, <2>2, <2>3
<1>7. CASE p = q
  BY <1>1, <1>3, <1>4, <1>7
<1> QED BY <1>5, <1>6, <1>7

\* Division by a positive number, and that it keeps the order.
LEMMA Division ==
    ASSUME NEW x \in Nat, NEW d \in Nat \ {0}
    PROVE  /\ x \div d \in Nat /\ x % d \in Nat /\ x % d < d
           /\ x = d * (x \div d) + (x % d)
  OBVIOUS

LEMMA DivisionMonotonic ==
    ASSUME NEW x \in Nat, NEW y \in Nat, x <= y, NEW d \in Nat \ {0}
    PROVE  x \div d <= y \div d
  OBVIOUS

=============================================================================
