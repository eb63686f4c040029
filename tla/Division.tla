------------------------------ MODULE Division ------------------------------
(***************************************************************************)
(* Facts about products and quotients of natural numbers: the lengths of   *)
(* slots and sleeps are quotients of a second by a frequency.              *)
(***************************************************************************)
EXTENDS Integers, TLAPS

\* Multiplication is monotonic.
LEMMA MulMono ==
  ASSUME NEW a \in Nat, NEW b \in Nat, NEW c \in Nat, a <= b
  PROVE  a * c <= b * c
OBVIOUS

\* The quotient of two natural numbers.
LEMMA DivFacts ==
  ASSUME NEW n \in Nat, NEW d \in Nat \ {0}
  PROVE  /\ n \div d \in Nat
         /\ d * (n \div d) <= n
         /\ n < d * (n \div d) + d
OBVIOUS

\* The quotient and the remainder.
LEMMA DivMod ==
  ASSUME NEW n \in Nat, NEW d \in Nat \ {0}
  PROVE  n \div d \in Nat /\ n % d \in 0 .. d - 1 /\ n = (n \div d) * d + (n % d)
<1>1. n \div d \in Nat /\ n % d \in 0 .. d - 1
  OBVIOUS
<1>2. n = d * (n \div d) + (n % d)
  OBVIOUS
<1>3. d * (n \div d) = (n \div d) * d
  BY <1>1
<1>4. QED
  BY <1>1, <1>2, <1>3

\* It is the largest number that can be multiplied back.
LEMMA DivMax ==
  ASSUME NEW n \in Nat, NEW d \in Nat \ {0}, NEW q \in Nat, d * q <= n
  PROVE  q <= n \div d
<1>. DEFINE p == n \div d
<1>1. p \in Nat /\ n < d * p + d
  BY DivFacts
<1>. HIDE DEF p
<1>2. SUFFICES ASSUME p + 1 <= q
               PROVE  FALSE
  BY <1>1 DEF p
<1>3. (p + 1) * d <= q * d
  BY <1>1, <1>2, MulMono
<1>4. QED
  BY <1>1, <1>3

\* The slot of a lower frequency is not shorter.
LEMMA DivMono ==
  ASSUME NEW n \in Nat, NEW d \in Nat \ {0}, NEW e \in Nat \ {0}, d <= e
  PROVE  n \div e <= n \div d
<1>1. n \div e \in Nat /\ e * (n \div e) <= n
  BY DivFacts
<1>2. d * (n \div e) <= e * (n \div e)
  BY <1>1, MulMono
<1>3. d * (n \div e) \in Nat /\ e * (n \div e) \in Nat
  BY <1>1
<1>4. d * (n \div e) <= n
  BY <1>1, <1>2, <1>3
<1>5. QED
  BY <1>1, <1>4, DivMax

\* A slot in units is at least its length in whole milliseconds.
LEMMA DivScale ==
  ASSUME NEW k \in Nat, NEW n \in Nat, NEW d \in Nat \ {0}
  PROVE  k * (n \div d) <= (k * n) \div d
<1>. DEFINE p == n \div d
<1>1. p \in Nat /\ d * p <= n
  BY DivFacts
<1>. HIDE DEF p
<1>2. (d * p) * k <= n * k
  BY <1>1, MulMono
<1>3. d * (k * p) <= k * n
  BY <1>1, <1>2
<1>4. k * p \in Nat /\ k * n \in Nat
  BY <1>1
<1>5. k * p <= (k * n) \div d
  BY <1>3, <1>4, DivMax
<1>6. QED
  BY <1>5 DEF p

\* What is too large to be multiplied back is larger than the quotient.
LEMMA DivBelow ==
  ASSUME NEW n \in Nat, NEW d \in Nat \ {0}, NEW q \in Nat, n < d * q
  PROVE  n \div d < q
<1>. DEFINE p == n \div d
<1>1. p \in Nat /\ d * p <= n
  BY DivFacts
<1>. HIDE DEF p
<1>2. SUFFICES ASSUME q <= p
               PROVE  FALSE
  BY <1>1 DEF p
<1>3. q * d <= p * d
  BY <1>1, <1>2, MulMono
<1>4. QED
  BY <1>1, <1>3

\* The quotient of a larger number is not smaller.
LEMMA DivGrows ==
  ASSUME NEW m \in Nat, NEW n \in Nat, NEW d \in Nat \ {0}, m <= n
  PROVE  m \div d <= n \div d
<1>1. m \div d \in Nat /\ d * (m \div d) <= m
  BY DivFacts
<1>2. d * (m \div d) \in Nat
  BY <1>1
<1>3. d * (m \div d) <= n
  BY <1>1, <1>2
<1>4. QED
  BY <1>1, <1>3, DivMax

\* The quotients of the multiples of a number are as far apart as its quotient,
\* or one more.
LEMMA DivStep ==
  ASSUME NEW m \in Nat, NEW n \in Nat, NEW d \in Nat \ {0}
  PROVE  (m + n) \div d \in {m \div d + n \div d, m \div d + n \div d + 1}
<1>. DEFINE p == m \div d
            q == n \div d
            r == (m + n) \div d
<1>1. p \in Nat /\ d * p <= m /\ m < d * p + d
  BY DivFacts
<1>2. q \in Nat /\ d * q <= n /\ n < d * q + d
  BY DivFacts
<1>3. m + n \in Nat
  OBVIOUS
<1>4. r \in Nat
  BY <1>3, DivFacts
<1>5. p + q <= r
  <2>1. p + q \in Nat /\ d * (p + q) = d * p + d * q
    BY <1>1, <1>2
  <2>2. d * p \in Nat /\ d * q \in Nat
    BY <1>1, <1>2
  <2>3. d * (p + q) <= m + n
    BY <1>1, <1>2, <2>1, <2>2
  <2>4. QED
    BY <1>3, <2>1, <2>3, DivMax
<1>6. r < p + q + 2
  <2>1. p + q + 2 \in Nat /\ d * (p + q + 2) = (d * p + d) + (d * q + d)
    BY <1>1, <1>2
  <2>2. d * p \in Nat /\ d * q \in Nat
    BY <1>1, <1>2
  <2>3. m + n < d * (p + q + 2)
    BY <1>1, <1>2, <2>1, <2>2
  <2>4. QED
    BY <1>3, <2>1, <2>3, DivBelow
<1>. HIDE DEF p, q, r
<1>7. r \in {p + q, p + q + 1}
  BY <1>1, <1>2, <1>4, <1>5, <1>6
<1>8. QED
  BY <1>7 DEF p, q, r
=============================================================================
