----------------------------- MODULE Remainders -----------------------------
(***************************************************************************)
(* Lemmas about remainders by a divisor that is a constant of a model, not *)
(* a number of the text: the width of a counter, the length of a period.   *)
(***************************************************************************)
EXTENDS Integers, TLAPS

LEMMA DivMod ==
    ASSUME NEW n \in Nat \ {0}, NEW x \in Nat
    PROVE  /\ x % n \in 0 .. n - 1
           /\ x \div n \in Nat
           /\ x = n * (x \div n) + (x % n)
BY Z3

LEMMA SmallMultiple ==
    ASSUME NEW n \in Nat \ {0}, NEW k \in Int, -n < n * k, n * k < n
    PROVE  k = 0
<1>1. CASE k >= 1
  <2>1. n * k >= n  BY <1>1
  <2>2. QED  BY <2>1
<1>2. CASE k <= -1
  <2>1. n * k <= -n  BY <1>2
  <2>2. QED  BY <2>1
<1>3. QED  BY <1>1, <1>2

LEMMA UniqueRemainder ==
    ASSUME NEW n \in Nat \ {0}, NEW q \in Nat, NEW r \in 0 .. n - 1,
           NEW x \in Nat, x = n * q + r
    PROVE  x % n = r
<1> DEFINE d == x \div n
           m == x % n
<1>1. m \in 0 .. n - 1 /\ d \in Nat /\ x = n * d + m
  BY DivMod
<1>2. n * (q - d) = m - r
  BY <1>1
<1>3. q - d = 0
  <2>1. -n < n * (q - d) /\ n * (q - d) < n  BY <1>1, <1>2
  <2>2. q - d \in Int  BY <1>1
  <2> HIDE DEF d
  <2>3. QED  BY <2>1, <2>2, SmallMultiple
<1>4. QED  BY <1>1, <1>2, <1>3

LEMMA SmallRemainder ==
    ASSUME NEW n \in Nat \ {0}, NEW x \in 0 .. n - 1
    PROVE  x % n = x
<1> DEFINE q == 0
<1>1. q \in Nat /\ x \in Nat /\ x = n * q + x  OBVIOUS
<1> HIDE DEF q
<1>2. QED  BY <1>1, UniqueRemainder

LEMMA OneWrap ==
    ASSUME NEW n \in Nat \ {0}, NEW x \in n .. 2 * n - 1
    PROVE  x % n = x - n
<1> DEFINE q == 1
           r == x - n
<1>1. q \in Nat /\ x \in Nat /\ r \in 0 .. n - 1 /\ x = n * q + r  OBVIOUS
<1> HIDE DEF q, r
<1>2. x % n = r  BY <1>1, UniqueRemainder
<1>3. QED  BY <1>2 DEF r

\* The remainder of the next number, as a clock counts it.
LEMMA NextRemainder ==
    ASSUME NEW n \in Nat \ {0}, NEW x \in Nat
    PROVE  (x + 1) % n = IF x % n = n - 1 THEN 0 ELSE (x % n) + 1
<1> DEFINE d == x \div n
           m == x % n
<1>1. m \in 0 .. n - 1 /\ d \in Nat /\ x = n * d + m
  BY DivMod
<1> DEFINE y == x + 1
<1>2. CASE m = n - 1
  <2> DEFINE e == d + 1
             r == 0
  <2>1. y \in Nat /\ e \in Nat /\ r \in 0 .. n - 1 /\ y = n * e + r  BY <1>1, <1>2
  <2> HIDE DEF y, e, r
  <2>2. y % n = r  BY <2>1, UniqueRemainder
  <2>3. QED  BY <1>2, <2>2 DEF y, r
<1>3. CASE m # n - 1
  <2> DEFINE r == m + 1
  <2>1. y \in Nat /\ r \in 0 .. n - 1 /\ y = n * d + r /\ d \in Nat  BY <1>1, <1>3
  <2> HIDE DEF y, d, r
  <2>2. y % n = r  BY <2>1, UniqueRemainder
  <2>3. QED  BY <1>3, <2>2 DEF y, r
<1>4. QED  BY <1>2, <1>3

\* Two numbers less than a divisor apart are in the same or in neighbouring
\* multiples of it.
LEMMA NearQuotients ==
    ASSUME NEW n \in Nat \ {0}, NEW x \in Nat, NEW y \in Nat,
           -n < x - y, x - y < n
    PROVE  \/ x - (x % n) = y - (y % n)
           \/ x - (x % n) = y - (y % n) + n
           \/ x - (x % n) = y - (y % n) - n
<1> DEFINE p == x \div n
           q == y \div n
           r == x % n
           s == y % n
<1>1. /\ p \in Nat /\ r \in 0 .. n - 1 /\ x = n * p + r
      /\ q \in Nat /\ s \in 0 .. n - 1 /\ y = n * q + s
  BY DivMod
<1> DEFINE k == p - q
<1>2. k \in Int /\ n * k = (x - y) - (r - s)
  BY <1>1
<1> HIDE DEF p, q, r, s, k
<1>3. -(2 * n) < n * k /\ n * k < 2 * n
  BY <1>1, <1>2
<1>4. k \in {-1, 0, 1}
  <2>1. CASE k >= 2
    <3>1. n * k >= 2 * n  BY <1>2, <2>1
    <3>2. QED  BY <1>2, <1>3, <3>1
  <2>2. CASE k <= -2
    <3>1. n * k <= -(2 * n)  BY <1>2, <2>2
    <3>2. QED  BY <1>2, <1>3, <3>1
  <2>3. QED  BY <1>2, <2>1, <2>2
<1>5. x - r = y - s + n * k
  BY <1>1, <1>2
<1>6. n * k \in {-n, 0, n}
  BY <1>4
<1>7. QED  BY <1>1, <1>5, <1>6 DEF r, s
=============================================================================
