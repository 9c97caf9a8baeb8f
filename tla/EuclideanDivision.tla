-------------------------- MODULE EuclideanDivision --------------------------
(***************************************************************************)
(* The facts about quotients and remainders by an unknown divisor that the *)
(* other proofs need: tile numbers are laid out by \div and %, and loops    *)
(* over them advance by the number of blocks.                              *)
(***************************************************************************)
EXTENDS Integers, TLAPS

\* Quotient and remainder, and that they are the only ones.
LEMMA Division ==
  ASSUME NEW n \in Nat, NEW d \in Nat \ {0}
  PROVE  /\ n \div d \in Nat /\ n % d \in 0 .. d - 1
         /\ n = d * (n \div d) + (n % d)
OBVIOUS

LEMMA DivisionUnique ==
  ASSUME NEW d \in Nat \ {0}, NEW p \in Int, NEW q \in Int,
         NEW r \in 0 .. d - 1, NEW s \in 0 .. d - 1,
         d * p + r = d * q + s
  PROVE  p = q /\ r = s
<1>1. d * (p - q) = s - r
  OBVIOUS
<1>2. ~ (p - q >= 1)
  <2> SUFFICES ASSUME p - q >= 1 PROVE FALSE
    OBVIOUS
  <2>1. d * (p - q) >= d
    OBVIOUS
  <2> QED
    BY <1>1, <2>1
<1>3. ~ (p - q <= -1)
  <2> SUFFICES ASSUME q - p >= 1 PROVE FALSE
    OBVIOUS
  <2>1. d * (q - p) >= d
    OBVIOUS
  <2>2. d * (q - p) = r - s
    OBVIOUS
  <2> QED
    BY <2>1, <2>2
<1>4. p = q
  BY <1>2, <1>3
<1> QED
  BY <1>4

\* Among d consecutive numbers there is only one of each remainder.
LEMMA SameRemainder ==
  ASSUME NEW d \in Nat \ {0}, NEW x \in Nat, NEW y \in Nat,
         x % d = y % d, x < y + d, y < x + d
  PROVE  x = y
<1> DEFINE p == x \div d
           q == y \div d
           r == x % d
<1>1. /\ p \in Nat /\ q \in Nat /\ r \in 0 .. d - 1
      /\ x = d * p + r /\ y = d * q + r
  <2>1. p \in Nat /\ r \in 0 .. d - 1 /\ x = d * p + r
    BY Division
  <2>2. q \in Nat /\ y = d * q + (y % d)
    BY Division
  <2> QED
    BY <2>1, <2>2
<1> HIDE DEF p, q, r
<1>2. d * (p - q) < d /\ d * (q - p) < d
  <2>1. d * (p - q) = x - y /\ d * (q - p) = y - x
    BY <1>1
  <2> QED
    BY <2>1
<1>3. ~ (p - q >= 1) /\ ~ (q - p >= 1)
  <2>1. p - q >= 1 => d * (p - q) >= d
    BY <1>1
  <2>2. q - p >= 1 => d * (q - p) >= d
    BY <1>1
  <2>3. d * (p - q) \in Int /\ d * (q - p) \in Int
    BY <1>1
  <2> QED
    BY <1>2, <2>1, <2>2, <2>3
<1>4. p = q
  BY <1>1, <1>3
<1> QED
  BY <1>1, <1>4

LEMMA SmallRemainder ==
  ASSUME NEW d \in Nat \ {0}, NEW r \in 0 .. d - 1
  PROVE  r % d = r
<1>1. r \in Nat
  OBVIOUS
<1>2. r \div d \in Nat /\ r % d \in 0 .. d - 1 /\ r = d * (r \div d) + (r % d)
  BY <1>1, Division
<1> DEFINE p == r \div d
           s == r % d
<1> HIDE DEF p, s
<1>3. d * p + s = d * 0 + r /\ p \in Int /\ s \in 0 .. d - 1
  BY <1>1, <1>2 DEF p, s
<1>4. s = r
  BY <1>3, DivisionUnique
<1> QED
  BY <1>4 DEF s

LEMMA NextRemainder ==
  ASSUME NEW d \in Nat \ {0}, NEW n \in Nat
  PROVE  (n + d) % d = n % d
<1> DEFINE p == n \div d
           r == n % d
           q == (n + d) \div d
           s == (n + d) % d
<1>1. p \in Nat /\ r \in 0 .. d - 1 /\ n = d * p + r
  BY Division
<1>2. q \in Nat /\ s \in 0 .. d - 1 /\ n + d = d * q + s
  <2>1. n + d \in Nat
    OBVIOUS
  <2> QED
    BY <2>1, Division
<1> HIDE DEF p, r, q, s
<1>3. d * (p + 1) + r = d * q + s /\ p + 1 \in Int /\ q \in Int
  BY <1>1, <1>2
<1>4. r = s
  BY <1>1, <1>2, <1>3, DivisionUnique
<1> QED
  BY <1>4 DEF r, s

LEMMA RemainderOf ==
  ASSUME NEW d \in Nat \ {0}, NEW q \in Nat, NEW r \in 0 .. d - 1
  PROVE  (d * q + r) % d = r
<1> DEFINE n == d * q + r
           p == n \div d
           s == n % d
<1>1. n \in Nat
  <2>1. d * q \in Nat
    OBVIOUS
  <2> QED
    BY <2>1
<1> HIDE DEF n
<1>2. p \in Nat /\ s \in 0 .. d - 1 /\ n = d * p + s
  BY <1>1, Division
<1> HIDE DEF p, s
<1>3. d * p + s = d * q + r /\ p \in Int
  BY <1>2 DEF n
<1>4. s = r
  BY <1>2, <1>3, DivisionUnique
<1> QED
  BY <1>4 DEF s, n
==============================================================================
