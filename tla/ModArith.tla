------------------------------ MODULE ModArith ------------------------------
(***************************************************************************)
(* Facts about % with a modulus that is not a literal: the sequence number *)
(* and the clock of the acquisition task wrap, and what the proofs need of *)
(* them is that wrapping commutes with addition.                           *)
(***************************************************************************)
EXTENDS Integers, TLAPS

\* Quotient and remainder, as wrapping_add's arithmetic uses them.
LEMMA DivMod ==
    ASSUME NEW T \in Nat \ {0}, NEW a \in Int
    PROVE  /\ a % T \in 0..T-1
           /\ a \div T \in Int
           /\ a = T * (a \div T) + (a % T)
  BY SMTT(30)

\* A positive multiple of T is at least T.
LEMMA MulMono ==
    ASSUME NEW T \in Nat \ {0}, NEW d \in Int, d >= 1
    PROVE  T * d >= T
  BY SMTT(30)

\* Multiplication distributes over sums and differences.
LEMMA MulDistributes ==
    ASSUME NEW T \in Nat \ {0}, NEW p \in Int, NEW q \in Int
    PROVE  /\ T * (p - q) = T * p - T * q
           /\ T * (p + q) = T * p + T * q
           /\ T * p \in Int
  BY SMTT(30)

\* Whatever is r above a multiple of T, with r below T, has remainder r: the
\* remainder is unique.
LEMMA ModUnique ==
    ASSUME NEW T \in Nat \ {0}, NEW q \in Int, NEW r \in 0..T-1
    PROVE  (T * q + r) % T = r
<1> DEFINE a == T * q + r
           p == a \div T
           s == a % T
<1>1. a \in Int
  BY MulDistributes
<1>2. p \in Int /\ s \in 0..T-1 /\ T * p + s = T * q + r
  BY <1>1, DivMod
<1> HIDE DEF a, p, s
<1>3. /\ T * (p - q) = T * p - T * q
      /\ T * (q - p) = T * q - T * p
      /\ T * p \in Int /\ T * q \in Int
  BY <1>2, MulDistributes
<1>4. CASE p > q
  <2>1. T * (p - q) >= T
    BY <1>2, <1>4, MulMono
  <2> QED  BY <2>1, <1>2, <1>3
<1>5. CASE p < q
  <2>1. T * (q - p) >= T
    BY <1>2, <1>5, MulMono
  <2> QED  BY <2>1, <1>2, <1>3
<1>6. CASE p = q
  <2>1. s = r
    BY <1>2, <1>3, <1>6
  <2> QED  BY <2>1 DEF s, a
<1> QED  BY <1>2, <1>4, <1>5, <1>6

\* Reducing a summand first changes nothing: wrapping_add step by step is
\* one reduction at the end.
LEMMA ModAdd ==
    ASSUME NEW T \in Nat \ {0}, NEW a \in Int, NEW b \in Int
    PROVE  ((a % T) + b) % T = (a + b) % T
<1> DEFINE q == a \div T
           r == a % T
           p == (r + b) \div T
           s == (r + b) % T
<1>1. q \in Int /\ r \in 0..T-1 /\ a = T * q + r
  BY DivMod
<1>2. p \in Int /\ s \in 0..T-1 /\ r + b = T * p + s
  <2>1. r \in Int /\ r + b \in Int
    BY <1>1
  <2> HIDE DEF r
  <2> QED  BY <2>1, DivMod
<1> HIDE DEF q, r, p, s
<1>3. T * (q + p) = T * q + T * p /\ T * q \in Int /\ T * p \in Int
  BY <1>1, <1>2, MulDistributes
<1>4. a + b = T * (q + p) + s
  BY <1>1, <1>2, <1>3
<1>5. (T * (q + p) + s) % T = s
  BY <1>1, <1>2, ModUnique
<1> QED  BY <1>4, <1>5 DEF r, s

\* What is below T is its own remainder.
LEMMA ModSmall ==
    ASSUME NEW T \in Nat \ {0}, NEW a \in 0..T-1
    PROVE  a % T = a
<1>1. (T * 0 + a) % T = a
  BY ModUnique
<1>2. T * 0 + a = a
  BY SMT
<1> QED  BY <1>1, <1>2
=============================================================================
