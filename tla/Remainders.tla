------------------------------- MODULE Remainders -------------------------------
(***************************************************************************)
(* Indices that wrap: facts about remainders that the rings of the drivers *)
(* and of the bulk transport rest on.  An index counts modulo the width of *)
(* its type and names a slot modulo the ring's size, which divides it.     *)
(***************************************************************************)
EXTENDS Integers, TLAPS

LEMMA DivMod ==
  ASSUME NEW a \in Nat, NEW c \in Nat \ {0}
  PROVE  /\ a % c \in 0 .. c - 1 /\ a \div c \in Nat
         /\ a = c * (a \div c) + (a % c)
  OBVIOUS

\* They are unique.
LEMMA ModUnique ==
  ASSUME NEW c \in Nat \ {0}, NEW q \in Nat, NEW r \in 0 .. c - 1
  PROVE  (c * q + r) % c = r
  OBVIOUS

\* The next remainder.
LEMMA ModNext ==
  ASSUME NEW a \in Nat, NEW c \in Nat \ {0}
  PROVE  (a + 1) % c = IF (a % c) + 1 = c THEN 0 ELSE (a % c) + 1
  <1> DEFINE q == a \div c
             r == a % c
  <1>1. r \in 0 .. c - 1 /\ q \in Nat /\ a = c * q + r
    BY DivMod
  <1> HIDE DEF q, r
  <1>2. CASE r + 1 = c
    <2>1. a + 1 = c * (q + 1) + 0
      BY <1>1, <1>2
    <2>2. q + 1 \in Nat /\ 0 \in 0 .. c - 1
      BY <1>1
    <2>3. (c * (q + 1) + 0) % c = 0
      BY <2>2, ModUnique
    <2> QED BY <1>2, <2>1, <2>3 DEF r
  <1>3. CASE r + 1 # c
    <2>1. r + 1 \in 0 .. c - 1
      BY <1>1, <1>3
    <2>2. (c * q + (r + 1)) % c = r + 1
      BY <1>1, <2>1, ModUnique
    <2>3. c * q + (r + 1) = a + 1
      BY <1>1
    <2> QED BY <1>3, <2>2, <2>3 DEF r
  <1> QED BY <1>2, <1>3

\* The slot of an index that wrapped is that of the count behind it.
LEMMA ModMod ==
  ASSUME NEW a \in Nat, NEW c \in Nat \ {0}, NEW m \in Nat \ {0}, m % c = 0
  PROVE  (a % m) % c = a % c
  <1> DEFINE q == a \div m
             r == a % m
             k == m \div c
             p == r \div c
             s == r % c
  <1>1. r \in 0 .. m - 1 /\ q \in Nat /\ a = m * q + r
    BY DivMod
  <1>2. k \in Nat /\ m = c * k + 0
    BY DivMod
  <1>3. r \in Nat
    BY <1>1
  <1>4. p \in Nat /\ s \in 0 .. c - 1 /\ r = c * p + s
    BY <1>3, DivMod
  <1> HIDE DEF q, r, k, p, s
  <1>5. m * q = c * (k * q)
    BY <1>1, <1>2
  <1>6. a = c * (k * q + p) + s
    <2>1. k * q \in Nat
      BY <1>1, <1>2
    <2>2. c * (k * q + p) = c * (k * q) + c * p
      BY <2>1, <1>4
    <2> QED BY <1>1, <1>4, <1>5, <2>1, <2>2
  <1>7. k * q + p \in Nat
    BY <1>1, <1>2, <1>4
  <1>8. a % c = s
    BY <1>6, <1>7, <1>4, ModUnique
  <1> QED BY <1>8 DEF s, r

\* ... for a negative quotient too.
LEMMA ModUniqueInt ==
  ASSUME NEW c \in Nat \ {0}, NEW q \in Int, NEW r \in 0 .. c - 1
  PROVE  (c * q + r) % c = r
  OBVIOUS

\* A number below the modulus is its own remainder, and c below it has the same.
LEMMA ModSmall ==
  ASSUME NEW c \in Nat \ {0}, NEW r \in 0 .. c - 1
  PROVE  r % c = r /\ (r - c) % c = r
  <1>1. (c * 0 + r) % c = r /\ (c * (-1) + r) % c = r
    BY ModUniqueInt
  <1>2. c * 0 + r = r /\ c * (-1) + r = r - c
    OBVIOUS
  <1> QED BY <1>1, <1>2

\* A counter that wraps is the remainder of one that does not.
LEMMA ModStep ==
  ASSUME NEW a \in Nat, NEW c \in Nat \ {0}
  PROVE  ((a % c) + 1) % c = (a + 1) % c
  <1>1. a % c \in 0 .. c - 1 /\ a % c \in Nat
    BY DivMod
  <1>2. (a % c) % c = a % c
    BY <1>1, ModSmall
  <1>3. ((a % c) + 1) % c = IF ((a % c) % c) + 1 = c THEN 0 ELSE ((a % c) % c) + 1
    BY <1>1, ModNext
  <1>4. (a + 1) % c = IF (a % c) + 1 = c THEN 0 ELSE (a % c) + 1
    BY ModNext
  <1> QED BY <1>2, <1>3, <1>4

\* The difference of two indices, in their width, is that of the counts behind them.
LEMMA ModApart ==
  ASSUME NEW c \in Nat \ {0}, NEW t \in Nat, NEW d \in 0 .. c - 1
  PROVE  (((t + d) % c) - (t % c)) % c = d
  <1> DEFINE q == t \div c
             r == t % c
  <1>1. r \in 0 .. c - 1 /\ q \in Nat /\ t = c * q + r
    BY DivMod
  <1> HIDE DEF q, r
  <1>2. CASE r + d < c
    <2>1. r + d \in 0 .. c - 1
      BY <1>1, <1>2
    <2>2. (c * q + (r + d)) % c = r + d
      BY <1>1, <2>1, ModUnique
    <2>3. c * q + (r + d) = t + d
      BY <1>1
    <2>4. (r + d) - r = d
      BY <1>1
    <2> QED BY <2>2, <2>3, <2>4, ModSmall DEF r
  <1>3. CASE ~(r + d < c)
    <2>1. r + d - c \in 0 .. c - 1
      BY <1>1, <1>3
    <2>5. q + 1 \in Nat
      BY <1>1
    <2>2. (c * (q + 1) + (r + d - c)) % c = r + d - c
      BY <2>1, <2>5, ModUnique
    <2>3. c * (q + 1) + (r + d - c) = t + d
      BY <1>1
    <2>4. (r + d - c) - r = d - c
      BY <1>1
    <2> QED BY <2>2, <2>3, <2>4, ModSmall DEF r
  <1> QED BY <1>2, <1>3

\* Counts less than a ring's size apart have different slots.
LEMMA ModDistinct ==
  ASSUME NEW c \in Nat \ {0}, NEW a \in Nat, NEW b \in Nat, a < b, b < a + c
  PROVE  a % c # b % c
  <1>1. b - a \in 0 .. c - 1 /\ a + (b - a) = b
    OBVIOUS
  <1>2. ((b % c) - (a % c)) % c = b - a
    BY <1>1, ModApart
  <1>3. SUFFICES ASSUME a % c = b % c PROVE FALSE
    OBVIOUS
  <1>4. a % c \in 0 .. c - 1
    BY DivMod
  <1>5. (b % c) - (a % c) = 0 /\ 0 \in 0 .. c - 1
    BY <1>3, <1>4
  <1>6. 0 % c = 0
    BY <1>5, ModSmall
  <1> QED BY <1>2, <1>5, <1>6

\* A number added to a remainder is added to what it is the remainder of.
LEMMA ModPlus ==
  ASSUME NEW a \in Nat, NEW i \in Nat, NEW c \in Nat \ {0}
  PROVE  ((a % c) + i) % c = (a + i) % c
  <1> DEFINE q == a \div c
             r == a % c
             p == (r + i) \div c
             s == (r + i) % c
  <1>1. r \in 0 .. c - 1 /\ q \in Nat /\ a = c * q + r
    BY DivMod
  <1>2. r + i \in Nat
    BY <1>1
  <1>3. s \in 0 .. c - 1 /\ p \in Nat /\ r + i = c * p + s
    BY <1>2, DivMod
  <1> HIDE DEF q, r, p, s
  <1>4. a + i = c * (q + p) + s /\ q + p \in Nat
    <2>1. c * (q + p) = c * q + c * p
      BY <1>1, <1>3
    <2> QED BY <1>1, <1>3, <2>1
  <1>5. (a + i) % c = s
    BY <1>3, <1>4, ModUnique
  <1> QED BY <1>5 DEF r, s
===============================================================================
